---- MODULE Spec2Model ----
(***************************************************************************)
(* A model of the aerosense ingestion pipeline: the AQI index converter,   *)
(* the source adapters' fetch functions and the telemetry ingestion        *)
(* commands that reconcile fetched records against the store.              *)
(*                                                                         *)
(* Conventions.                                                            *)
(*   - A Python value that may be None is a sequence of length <= 1:       *)
(*     None is << >> and a present value v is << v >>.                     *)
(*   - A pollutant concentration is an integer number of hundredths of a   *)
(*     microgram per cubic metre (12.05 is 1205); the breakpoint tables    *)
(*     are written in the same unit.                                       *)
(*   - A Python string is a sequence of one-character strings.             *)
(***************************************************************************)
EXTENDS Integers, Sequences, FiniteSets, TLC

VARIABLES
    \* ---- the store and the telemetry commands (Spec)
    cities,         \* the City rows
    stations,       \* the Station rows
    readings,       \* the AQIReading rows
    clock,          \* the latest time any run has read
    report,         \* what the latest run reported
    run,            \* the run in progress
    upsert,         \* history: the latest pass of a store loop
    \* ---- the adapters' fetch functions (SpecFetch)
    outcome,        \* the latest call of a fetch function: response and result
    \* ---- AQI converter harness (SpecAqi): one breakpoint table swept upwards
    pollutant,      \* "pm25" or "pm10": which breakpoint table is used
    conc,           \* the concentration of the latest compute_aqi call
    aqiCalled,      \* whether compute_aqi has been called on conc yet
    aqi,            \* what compute_aqi returned for conc
    runMax,         \* the largest index returned so far inside conc's tuple
    tupleFrom,      \* the lowest concentration of conc's tuple called so far
    \* ---- overall index harness (SpecOverall)
    pm25, pm10,     \* the two concentrations passed to compute_overall_aqi
    overallCalled,  \* whether compute_overall_aqi has been called on them yet
    overall,        \* what compute_overall_aqi returned
    \* ---- the product catalog and the fetch_products command (SpecProducts)
    products,       \* the Product rows
    ingest,         \* the run in progress
    ingestReport,   \* what the latest run reported
    candidate,      \* history: the latest pass of the run's loop
    \* ---- the news articles and the fetch_gdelt_news command (SpecNews)
    articles,       \* the NewsArticle rows
    news,           \* the run in progress
    newsReport,     \* what the latest run reported
    arrival,        \* history: the latest pass of the run's loop
    \* ---- calls of a function (SpecPure, SpecRecommend)
    fn,             \* the function called
    args,           \* its arguments
    called,         \* whether it has been called yet
    result,         \* what it returned
    again,          \* what the same call returned when made once more
    \* ---- two telemetry runs at once (SpecRace)
    workers,        \* each run's place in its loop and what it holds
    \* ---- fetch_gdelt_news run twice over one batch (SpecNewsTwice)
    replay          \* the batch, the run it is in, and the table after the first

aqiVars     == <<pollutant, conc, aqiCalled, aqi, runMax, tupleFrom>>
overallVars == <<pm25, pm10, overallCalled, overall>>
storeVars   == <<cities, stations, readings, clock, report, run, upsert>>
fetchVars   == <<outcome>>
pureVars    == <<fn, args, called, result, again>>
catalogVars == <<products, ingest, ingestReport, candidate>>
newsVars    == <<articles, news, newsReport, arrival>>
raceVars    == <<workers>>
replayVars  == <<replay>>
vars        == <<storeVars, aqiVars, overallVars, fetchVars, pureVars, catalogVars,
                 newsVars, raceVars, replayVars>>

None    == << >>
Some(v) == << v >>
Val(o)  == o[1]

Max2(a, b) == IF a >= b THEN a ELSE b

(***************************************************************************)
(* Python string operations, on sequences of one-character strings.        *)
(***************************************************************************)
Lowers == <<"a","b","c","d","e","f","g","h","i","j","k","l","m",
            "n","o","p","q","r","s","t","u","v","w","x","y","z">>
Uppers == <<"A","B","C","D","E","F","G","H","I","J","K","L","M",
            "N","O","P","Q","R","S","T","U","V","W","X","Y","Z">>
Digits == <<"0","1","2","3","4","5","6","7","8","9">>

Range(f)    == {f[i] : i \in DOMAIN f}
IsSpace(ch) == ch \in {" ", "\t", "\n", "\r"}
IsDigit(ch) == ch \in Range(Digits)
IsLower(ch) == ch \in Range(Lowers)
IsUpper(ch) == ch \in Range(Uppers)
IsCased(ch) == IsLower(ch) \/ IsUpper(ch)
ToUpper(ch) == IF IsLower(ch) THEN Uppers[CHOOSE i \in 1..26 : Lowers[i] = ch] ELSE ch
ToLower(ch) == IF IsUpper(ch) THEN Lowers[CHOOSE i \in 1..26 : Uppers[i] = ch] ELSE ch

\* s[:n]
Take(s, n) == IF Len(s) <= n THEN s ELSE SubSeq(s, 1, n)
\* s[n:]
Drop(s, n) == IF Len(s) <= n THEN << >> ELSE SubSeq(s, n + 1, Len(s))

StartsWith(s, pat) == Len(pat) <= Len(s) /\ SubSeq(s, 1, Len(pat)) = pat

\* s.strip()
RECURSIVE LStrip(_)
LStrip(s) == IF s # << >> /\ IsSpace(Head(s)) THEN LStrip(Tail(s)) ELSE s

RECURSIVE RStrip(_)
RStrip(s) ==
    IF s # << >> /\ IsSpace(s[Len(s)]) THEN RStrip(SubSeq(s, 1, Len(s) - 1)) ELSE s

Strip(s) == RStrip(LStrip(s))

\* s.replace(old, new) for a non-empty old: every occurrence, left to right
RECURSIVE Replace(_, _, _)
Replace(s, old, new) ==
    IF s = << >> THEN << >>
    ELSE IF StartsWith(s, old) THEN new \o Replace(Drop(s, Len(old)), old, new)
    ELSE <<Head(s)>> \o Replace(Tail(s), old, new)

\* s.split(sep) for a one-character sep: the sequence of the parts
RECURSIVE Split(_, _)
Split(s, sep) ==
    IF \A i \in 1..Len(s) : s[i] # sep THEN <<s>>
    ELSE LET k == CHOOSE i \in 1..Len(s) :
                      s[i] = sep /\ \A j \in 1..(i - 1) : s[j] # sep
         IN  <<SubSeq(s, 1, k - 1)>> \o Split(Drop(s, k), sep)

\* any(ch.isdigit() for ch in s)
HasDigit(s) == \E i \in 1..Len(s) : IsDigit(s[i])

\* s.title(): a cased character is upper-cased when it follows an uncased
\* one (or starts the string) and lower-cased otherwise
Title(s) ==
    [i \in 1..Len(s) |->
        IF i > 1 /\ IsCased(s[i - 1]) THEN ToLower(s[i]) ELSE ToUpper(s[i])]

(***************************************************************************)
(* JSON values of the upstream payloads.  A field that may arrive as a     *)
(* string, an object, a number or null is one record: kind says which, s   *)
(* is the string, n the number, name and station the object's keys (each   *)
(* None when the object has no such key).                                  *)
(***************************************************************************)
JNull       == [kind |-> "null", s |-> << >>, n |-> 0, name |-> None, station |-> None]
JStr(str)   == [kind |-> "str",  s |-> str,   n |-> 0, name |-> None, station |-> None]
JInt(num)   == [kind |-> "int",  s |-> << >>, n |-> num, name |-> None, station |-> None]
JObj(nm, st) == [kind |-> "dict", s |-> << >>, n |-> 0, name |-> nm, station |-> st]

\* str(n) for an integer n >= 0
RECURSIVE NatToStr(_)
NatToStr(n) ==
    IF n < 10 THEN <<Digits[n + 1]>>
    ELSE NatToStr(n \div 10) \o <<Digits[(n % 10) + 1]>>

IntToStr(n) == IF n < 0 THEN <<"-">> \o NatToStr(-n) ELSE NatToStr(n)

\* int(text) for a string: optional surrounding whitespace, an optional sign,
\* then decimal digits only; None stands for the ValueError raised otherwise.
RECURSIVE DigitsToNat(_)
DigitsToNat(ds) ==
    IF ds = << >> THEN 0
    ELSE 10 * DigitsToNat(SubSeq(ds, 1, Len(ds) - 1))
         + ((CHOOSE i \in 1..10 : Digits[i] = ds[Len(ds)]) - 1)

StrToInt(text) ==
    LET t    == Strip(text)
        neg  == t # << >> /\ Head(t) = "-"
        body == IF t # << >> /\ Head(t) \in {"-", "+"} THEN Tail(t) ELSE t
    IN  IF body = << >> \/ \E i \in 1..Len(body) : ~IsDigit(body[i]) THEN None
        ELSE Some(IF neg THEN -DigitsToNat(body) ELSE DigitsToNat(body))

\* int(v) for a JSON value: None stands for the exception int() raises
\* (TypeError for null or an object, ValueError for a non-numeric string).
PyInt(v) ==
    CASE v.kind = "int" -> Some(v.n)
      [] v.kind = "str" -> StrToInt(v.s)
      [] OTHER          -> None

(***************************************************************************)
(* clean_city_name (fetch_india_aqi.py).                                   *)
(***************************************************************************)
\* `a or b` on optional strings: a when it is present and non-empty, else b
OrElse(a, b) == IF a # None /\ Val(a) # << >> THEN a ELSE b

CleanText(text) ==
    LET c1    == Replace(Strip(text), <<" ", ",">>, <<",">>)
        c2    == Strip(Split(c1, "(")[1])
        c3    == Strip(Replace(Replace(c2, <<"I","n","d","i","a">>, << >>),
                               <<"I","N">>, << >>))
        kept  == SelectSeq(Split(c3, ","), LAMBDA p : p # << >> /\ ~HasDigit(p))
        parts == [k \in 1..Len(kept) |-> Strip(kept[k])]
    IN  IF HasDigit(c3)
        THEN IF parts # << >>
             THEN (IF Len(parts[1]) < 2 THEN None ELSE Some(Title(parts[1])))
             ELSE None
        ELSE IF Len(c3) < 2 THEN None ELSE Some(Title(c3))

clean_city_name(raw) ==
    LET text == CASE raw.kind = "dict" -> OrElse(raw.name, OrElse(raw.station, Some(<< >>)))
                  [] raw.kind = "str"  -> Some(raw.s)
                  [] raw.kind = "int"  -> IF raw.n = 0 THEN None ELSE Some(IntToStr(raw.n))
                  [] OTHER             -> None
    IN  IF text = None \/ Val(text) = << >> THEN None
        ELSE CleanText(Val(text))

(***************************************************************************)
(* AQI calculation (live_aqi_fetcher.py).                                  *)
(***************************************************************************)
\* Each tuple is (Clow, Chigh, Ilow, Ihigh), concentrations in hundredths.
PM25_BREAKPOINTS ==
    << <<0,     1200,  0,   50>>,
       <<1210,  3540,  51,  100>>,
       <<3550,  5540,  101, 150>>,
       <<5550,  15040, 151, 200>>,
       <<15050, 25040, 201, 300>>,
       <<25050, 35040, 301, 400>>,
       <<35050, 50040, 401, 500>> >>

PM10_BREAKPOINTS ==
    << <<0,     5400,  0,   50>>,
       <<5500,  15400, 51,  100>>,
       <<15500, 25400, 101, 150>>,
       <<25500, 35400, 151, 200>>,
       <<35500, 42400, 201, 300>>,
       <<42500, 50400, 301, 400>>,
       <<50500, 60400, 401, 500>> >>

\* _linear evaluates ((Ihigh - Ilow) / (Chigh - Clow)) * (C - Clow) + Ilow in
\* double precision and rounds with Python's round(), which rounds an exact
\* half to the even neighbour.  Where the real value is exactly k + 1/2 the
\* double product is not always exactly k + 1/2: at the concentrations below
\* (hundredths, found by evaluating the expression in IEEE double arithmetic)
\* it lands on the far side of the half and the result is the odd neighbour.
FloatOffTie ==
    { <<0, 1200, c>> : c \in {108, 156, 348, 444, 540, 636, 732, 924, 972, 1116, 1164} }
    \cup { <<25050, 35040, 34485>>, <<0, 5400, 1674>> }

\* The mutant interpolates from C instead of from C - Clow.
LinearNoOffset(C, Clow, Chigh, Ilow, Ihigh) ==
    Ilow + (((Ihigh - Ilow) * C) \div (Chigh - Clow))

_linear(C, Clow, Chigh, Ilow, Ihigh) ==
    LET num == (Ihigh - Ilow) * (C - Clow)
        den == Chigh - Clow
        q   == num \div den
        r   == num % den
        even == IF q % 2 = 0 THEN q ELSE q + 1
        odd  == IF q % 2 = 0 THEN q + 1 ELSE q
    IN  Ilow + (IF 2 * r < den THEN q
                ELSE IF 2 * r > den THEN q + 1
                ELSE IF <<Clow, Chigh, C>> \in FloatOffTie THEN odd ELSE even)

\* The mutant tests Clow <= C < Chigh: the upper end of each tuple is lost.
RECURSIVE ScanHalfOpen(_, _, _)
ScanHalfOpen(C, breakpoints, i) ==
    IF i > Len(breakpoints) THEN None
    ELSE LET bp == breakpoints[i]
         IN  IF bp[1] <= C /\ C < bp[2]
             THEN Some(_linear(C, bp[1], bp[2], bp[3], bp[4]))
             ELSE ScanHalfOpen(C, breakpoints, i + 1)

RECURSIVE ScanBreakpoints(_, _, _)
ScanBreakpoints(C, breakpoints, i) ==
    IF i > Len(breakpoints) THEN None
    ELSE LET bp == breakpoints[i]
         IN  IF bp[1] <= C /\ C <= bp[2]
             THEN Some(_linear(C, bp[1], bp[2], bp[3], bp[4]))
             ELSE ScanBreakpoints(C, breakpoints, i + 1)

\* The mutant clamps a concentration above the table into the last tuple.
ComputeAqiClamping(C, breakpoints) ==
    IF C = None THEN None
    ELSE LET last == breakpoints[Len(breakpoints)]
         IN  IF Val(C) > last[2] THEN Some(last[4])
             ELSE ScanBreakpoints(Val(C), breakpoints, 1)

compute_aqi(C, breakpoints) ==
    IF C = None THEN None
    ELSE ScanBreakpoints(Val(C), breakpoints, 1)

RECURSIVE MaxOf(_)
MaxOf(values) ==
    IF Len(values) = 1 THEN values[1]
    ELSE Max2(values[1], MaxOf(Tail(values)))

\* The mutant reports the PM2.5 index whenever it is present.
OverallPreferPm25(c25, c10) ==
    LET aqi_pm25 == compute_aqi(c25, PM25_BREAKPOINTS)
        aqi_pm10 == compute_aqi(c10, PM10_BREAKPOINTS)
    IN  IF aqi_pm25 # None THEN aqi_pm25 ELSE aqi_pm10

compute_overall_aqi(c25, c10) ==
    LET aqi_pm25 == compute_aqi(c25, PM25_BREAKPOINTS)
        aqi_pm10 == compute_aqi(c10, PM10_BREAKPOINTS)
        present  == SelectSeq(<<aqi_pm25, aqi_pm10>>, LAMBDA v : v # None)
        values   == [k \in 1..Len(present) |-> Val(present[k])]
    IN  IF values # << >> THEN Some(MaxOf(values)) ELSE None

(***************************************************************************)
(* Upstream responses.  A response is what one HTTP call to an upstream    *)
(* produced: fault names the one thing wrong with it (if any) and items is *)
(* the list the body carries under the adapter's list key.                 *)
(*   "none"        a success status and a well-formed body                 *)
(*   "connection"  requests.get raises (connection failure or timeout)     *)
(*   "http_status" a non-success status; the body still carries items      *)
(*   "bad_json"    the body does not parse as JSON                         *)
(*   "error"       a success status with the upstream's error payload      *)
(*                 (no list; WAQI: status != "ok")                         *)
(* An item whose shape is "other" is a list entry that is not an object.   *)
(***************************************************************************)
Faults == {"none", "connection", "http_status", "bad_json", "error"}

Returned(records) == [raised |-> FALSE, records |-> records]
Raised            == [raised |-> TRUE,  records |-> << >>]

\* d.get(key) on a dictionary modelled as a function
Get(d, key) == IF key \in DOMAIN d THEN d[key] ELSE None

(***************************************************************************)
(* The OpenAQ adapter (live_aqi_fetcher.py).  An item is                   *)
(*   [shape, city, location, coordinates, measurements]                    *)
(* with city and location optional strings, coordinates None (key absent)  *)
(* or << [latitude, longitude] >> and measurements a sequence of           *)
(* [parameter, value] records.                                             *)
(***************************************************************************)
Unknown == <<"U","n","k","n","o","w","n">>

\* fetch_openaq_v3: None stands for the exception raised
fetch_openaq_v3(resp) ==
    IF resp.fault \in {"connection", "http_status", "bad_json"} THEN None
    ELSE Some(resp)

\* the value of the last measurement naming param, None when there is none
LastValue(measurements, param) ==
    LET at == {k \in 1..Len(measurements) : measurements[k].parameter = param}
    IN  IF at = {} THEN None
        ELSE measurements[CHOOSE k \in at : \A j \in at : j <= k].value

\* values_dict after the loop over item["measurements"]
ValuesDict(measurements) ==
    [param \in {measurements[k].parameter : k \in 1..Len(measurements)} |->
        LastValue(measurements, param)]

PrepareReading(item, now) ==
    LET coordinates == item.coordinates
        lat  == IF coordinates = None THEN None ELSE Val(coordinates).latitude
        lon  == IF coordinates = None THEN None ELSE Val(coordinates).longitude
        c25  == LastValue(item.measurements, "pm25")
        c10  == LastValue(item.measurements, "pm10")
    IN  [city         |-> Val(OrElse(item.city, Some(Unknown))),
         location     |-> Val(OrElse(item.location, Some(Unknown))),
         lat          |-> lat,
         lon          |-> lon,
         aqi          |-> compute_overall_aqi(c25, c10),
         measurements |-> ValuesDict(item.measurements),
         timestamp    |-> now,
         raw          |-> item]

collect_and_prepare_readings(resp, now) ==
    LET data == fetch_openaq_v3(resp)
    IN  IF data = None THEN Raised
        ELSE LET results == IF resp.fault = "error" THEN << >> ELSE Val(data).items
             IN  IF \E k \in 1..Len(results) : results[k].shape # "dict"
                 THEN Raised
                 ELSE Returned([k \in 1..Len(results) |->
                                    PrepareReading(results[k], now)])

(***************************************************************************)
(* The WAQI adapters (fetch_india_aqi.py, waqi_fetcher.py).  An item is    *)
(*   [shape, station, city, aqi, lat, lon]                                 *)
(* with station, city and aqi JSON values and lat, lon optional numbers.   *)
(* A coordinate is a float, written as an integer number of ten-thousandths*)
(* of a degree (18.5204 is 185204).                                        *)
(***************************************************************************)
\* the index below which fetch_india_aqi skips an item
SanityFloor == 5

\* One cleaned entry of fetch_india_aqi, None when the item is skipped.
CleanEntry(item, time) ==
    LET first     == clean_city_name(item.station)
        city_name == IF first = None THEN clean_city_name(item.city) ELSE first
        aqi_value == PyInt(item.aqi)
    IN  IF city_name = None THEN None
        ELSE IF aqi_value = None THEN None
        ELSE IF Val(aqi_value) < SanityFloor THEN None
        ELSE IF item.lat = None \/ item.lon = None THEN None
        ELSE Some([city      |-> Val(city_name),
                   aqi       |-> Val(aqi_value),
                   lat       |-> Val(item.lat),
                   lon       |-> Val(item.lon),
                   timestamp |-> time,
                   raw       |-> item])

\* times[k] is what datetime.now() returns while item k is processed.
fetch_india_aqi(resp, times) ==
    IF resp.fault \in {"connection", "http_status", "bad_json"} THEN Raised
    ELSE IF resp.fault = "error" THEN Returned(<< >>)
    ELSE IF \E k \in 1..Len(resp.items) : resp.items[k].shape # "dict" THEN Raised
    ELSE LET entries == [k \in 1..Len(resp.items) |-> CleanEntry(resp.items[k], times[k])]
             kept    == SelectSeq(entries, LAMBDA e : e # None)
         IN  Returned([k \in 1..Len(kept) |-> Val(kept[k])])

UnknownStation == <<"U","n","k","n","o","w","n"," ","S","t","a","t","i","o","n">>
UnknownCity    == <<"U","n","k","n","o","w","n"," ","C","i","t","y">>

\* The name of a station or city field that is a string or an object:
\* raw.get("name", default) for an object, `raw or default` otherwise.
\* (A number that is not 0 is kept as it is; it is shown here in digits.)
NameOf(raw, default) ==
    CASE raw.kind = "dict" -> IF raw.name = None THEN default ELSE Val(raw.name)
      [] raw.kind = "str"  -> IF raw.s = << >> THEN default ELSE raw.s
      [] raw.kind = "int"  -> IF raw.n = 0 THEN default ELSE IntToStr(raw.n)
      [] OTHER             -> default

WaqiStation(st, now) ==
    [aqi          |-> PyInt(st.aqi),
     lat          |-> st.lat,
     lon          |-> st.lon,
     station_name |-> NameOf(st.station, UnknownStation),
     city         |-> NameOf(st.city, UnknownCity),
     time         |-> now,
     raw          |-> st]

fetch_all_india_wAQI(resp, now) ==
    IF resp.fault \in {"connection", "http_status", "bad_json"} THEN Raised
    ELSE IF resp.fault = "error" THEN Raised
    ELSE IF \E k \in 1..Len(resp.items) : resp.items[k].shape # "dict" THEN Raised
    ELSE Returned([k \in 1..Len(resp.items) |-> WaqiStation(resp.items[k], now)])

(***************************************************************************)
(* The news adapter (utils/gdelt.py).  A response is                       *)
(*   [fault, contentType, body, items]                                     *)
(* with contentType "json", "csv" or "other", body "json", "csv_url" (CSV  *)
(* text whose header starts with url,), "csv" or "other", and items the    *)
(* entries of the JSON list or the rows of the CSV text.  An item is       *)
(*   [shape, title, excerpt, summary, url, source, domain, seendate, date] *)
(* with optional strings, None when the key is absent.                     *)
(***************************************************************************)
Empty == << >>

\* d.get(key, default) for an optional string
GetOr(field, default) == IF field = None THEN default ELSE Val(field)

\* an entry of the JSON path's list comprehension
JsonArticle(item) ==
    [title        |-> GetOr(item.title, Empty),
     summary      |-> GetOr(item.excerpt, GetOr(item.summary, Empty)),
     url          |-> GetOr(item.url, Empty),
     source       |-> GetOr(item.source, Empty),
     published_at |-> IF item.seendate # None /\ item.seendate # Some(Empty)
                      THEN item.seendate
                      ELSE item.date,
     raw          |-> item]

\* an entry of the CSV path's loop
CsvArticle(row) ==
    [title        |-> GetOr(row.title, Empty),
     summary      |-> GetOr(row.excerpt, Empty),
     url          |-> GetOr(row.url, Empty),
     source       |-> GetOr(row.domain, Empty),
     published_at |-> GetOr(row.seendate, Empty),
     raw          |-> row]

fetch_gdelt_articles(resp) ==
    IF resp.fault = "connection" THEN Returned(<< >>)
    ELSE IF resp.contentType = "json"
    THEN IF resp.fault = "bad_json" \/ resp.body # "json" THEN Returned(<< >>)
         ELSE IF \E k \in 1..Len(resp.items) : resp.items[k].shape # "dict"
         THEN Raised
         ELSE Returned([k \in 1..Len(resp.items) |-> JsonArticle(resp.items[k])])
    ELSE IF resp.contentType = "csv" \/ resp.body = "csv_url"
    THEN Returned([k \in 1..Len(resp.items) |-> CsvArticle(resp.items[k])])
    ELSE Returned(<< >>)

(***************************************************************************)
(* The product adapter (services/product_fetcher.py).  A response is what  *)
(* GoogleSearch.get_dict does: [fault, items], where the client raises on  *)
(* "connection" and "bad_json", returns a payload with an error key on     *)
(* "http_status" and "error", and returns shopping_results = items on      *)
(* "none".  An item is                                                     *)
(*   [shape, title, snippet, extracted_price, thumbnail, product_link,     *)
(*    source, rating, reviews, delivery]                                   *)
(* with optional strings, extracted_price an optional number of hundredths,*)
(* rating an optional number of tenths (4.5 is 45) and reviews an optional *)
(* integer; no item carries a price string, a link or a serpapi_* key.     *)
(***************************************************************************)
NameMaxLen        == 256
DescriptionMaxLen == 500
SourceMaxLen      == 128

GoogleShopping ==
    <<"G","o","o","g","l","e"," ","S","h","o","p","p","i","n","g">>

\* ProductFetcher._parse_product, None for the exception it swallows
_parse_product(item) ==
    IF item.shape # "dict" THEN None
    ELSE Some([name        |-> Take(GetOr(item.title, Empty), NameMaxLen),
               description |-> Take(GetOr(item.snippet, Empty), DescriptionMaxLen),
               price       |-> GetOr(item.extracted_price, 0),
               image_url   |-> GetOr(item.thumbnail, Empty),
               product_url |-> GetOr(item.product_link, Empty),
               source      |-> Take(GetOr(item.source, GoogleShopping), SourceMaxLen),
               rating      |-> GetOr(item.rating, 0),
               reviews     |-> GetOr(item.reviews, 0),
               delivery    |-> GetOr(item.delivery, Empty),
               raw_data    |-> item])

fetch_products(resp, max_results) ==
    IF resp.fault \in {"connection", "bad_json"} THEN Returned(<< >>)
    ELSE IF resp.fault \in {"http_status", "error"} THEN Returned(<< >>)
    ELSE IF resp.items = << >> THEN Returned(<< >>)
    ELSE LET parsed == [k \in 1..Len(Take(resp.items, max_results)) |->
                            _parse_product(resp.items[k])]
             kept   == SelectSeq(parsed, LAMBDA q : q # None)
         IN  Returned([k \in 1..Len(kept) |-> Val(kept[k])])

(***************************************************************************)
(* The store (models.py) and the two telemetry commands' store loops.      *)
(* Each table is the sequence of its rows; a row's primary key is its      *)
(* position, and a foreign key holds the position of the row it names.     *)
(***************************************************************************)
CodeMaxLen == 50

India == <<"I","n","d","i","a">>

\* round(x, 3) of a coordinate: the nearest thousandth (x is in
\* ten-thousandths, the result in thousandths; an exact half goes to the even
\* neighbour)
Round3(x) ==
    LET q == x \div 10
        r == x % 10
    IN  IF r < 5 THEN q
        ELSE IF r > 5 THEN q + 1
        ELSE IF q % 2 = 0 THEN q ELSE q + 1

\* the decimal digits of a fraction of thousandths f in 0..999 as str(float)
\* prints them: no trailing zeros, at least one digit
FractionDigits(f) ==
    LET d1 == f \div 100
        d2 == (f \div 10) % 10
        d3 == f % 10
    IN  IF d3 # 0 THEN <<Digits[d1 + 1], Digits[d2 + 1], Digits[d3 + 1]>>
        ELSE IF d2 # 0 THEN <<Digits[d1 + 1], Digits[d2 + 1]>>
        ELSE <<Digits[d1 + 1]>>

\* str(t / 1000) for the float t thousandths, as an f-string formats it
FloatToStr(t) ==
    LET m == IF t < 0 THEN -t ELSE t
    IN  (IF t < 0 THEN <<"-">> ELSE << >>)
        \o NatToStr(m \div 1000) \o <<".">> \o FractionDigits(m % 1000)

\* Manager.get_or_create: hits are the positions of the rows matching the
\* lookup.  More than one raises MultipleObjectsReturned.
GetOrCreate(rows, hits, newRow) ==
    IF Cardinality(hits) > 1
    THEN [raised |-> TRUE, rows |-> rows, at |-> 0, created |-> FALSE]
    ELSE IF hits = {}
    THEN [raised |-> FALSE, rows |-> Append(rows, newRow),
          at |-> Len(rows) + 1, created |-> TRUE]
    ELSE [raised |-> FALSE, rows |-> rows,
          at |-> CHOOSE i \in hits : TRUE, created |-> FALSE]

\* The mutant keeps the matching row as it is (get_or_create in place of
\* update_or_create).
KeepOrCreate(rows, hits, newRow, fields) ==
    GetOrCreate(rows, hits, newRow)

\* Manager.update_or_create: the matching row has the fields of the defaults
\* set from newRow and keeps the rest.
UpdateOrCreate(rows, hits, newRow, fields) ==
    IF Cardinality(hits) > 1
    THEN [raised |-> TRUE, rows |-> rows, at |-> 0, created |-> FALSE]
    ELSE IF hits = {}
    THEN [raised |-> FALSE, rows |-> Append(rows, newRow),
          at |-> Len(rows) + 1, created |-> TRUE]
    ELSE LET i == CHOOSE j \in hits : TRUE
         IN  [raised |-> FALSE,
              rows |-> [rows EXCEPT ![i] =
                          [f \in DOMAIN rows[i] |->
                              IF f \in fields THEN newRow[f] ELSE rows[i][f]]],
              at |-> i, created |-> FALSE]

ReadingDefaults ==
    {"city", "aqi", "pm25", "pm10", "no2", "so2", "o3", "co", "nh3", "raw_data"}

\* The mutant writes the station's attributes on every match.
StationUpdateOrCreate(rows, code, defaults) ==
    UpdateOrCreate(rows,
                   {i \in 1..Len(rows) : rows[i].code = code},
                   [code |-> code] @@ defaults, DOMAIN defaults)

\* Station.objects.get_or_create(code=code, defaults=defaults)
StationGetOrCreate(rows, code, defaults) ==
    GetOrCreate(rows,
                {i \in 1..Len(rows) : rows[i].code = code},
                [code |-> code] @@ defaults)

\* City.objects.get_or_create(name=name, defaults=defaults)
CityGetOrCreate(rows, name, defaults) ==
    GetOrCreate(rows,
                {i \in 1..Len(rows) : rows[i].name = name},
                [name |-> name] @@ defaults)

\* AQIReading.objects.update_or_create(station=, timestamp=, defaults=)
ReadingUpdateOrCreate(rows, station, timestamp, defaults) ==
    UpdateOrCreate(rows,
                   {i \in 1..Len(rows) :
                        /\ rows[i].station = station
                        /\ rows[i].timestamp = timestamp},
                   [station |-> station, timestamp |-> timestamp] @@ defaults,
                   ReadingDefaults)

\* What a pass asked of the store: the station it resolved (s, from attrs)
\* and the reading it upserted (o, from defaults).
Asked(s, attrs, o, defaults) ==
    [station |-> s.at, stationCreated |-> s.created, attrs |-> attrs,
     reading |-> o.at, defaults |-> defaults]

\* the lookups and defaults of fetch_aqi.Command.handle for a record r, the
\* city and later the station being those the calls before returned
OpenAQCityDefaults(r) == [latitude |-> r.lat, longitude |-> r.lon, country |-> India]
OpenAQStationCode(r)  == Take(Replace(r.location, <<" ">>, <<"_">>), CodeMaxLen)
OpenAQStationAttrs(r, city) ==
    [city |-> city, name |-> r.location, latitude |-> r.lat,
     longitude |-> r.lon, data_source |-> "OpenAQ"]
OpenAQReadingDefaults(r, city) ==
    [city |-> city, aqi |-> r.aqi,
     pm25 |-> Get(r.measurements, "pm25"),
     pm10 |-> Get(r.measurements, "pm10"),
     no2  |-> Get(r.measurements, "no2"),
     so2  |-> Get(r.measurements, "so2"),
     o3   |-> Get(r.measurements, "o3"),
     co   |-> Get(r.measurements, "co"),
     nh3  |-> Get(r.measurements, "nh3"),
     raw_data |-> r.raw]

\* One pass of the loop of fetch_aqi.Command.handle over a record r.
\* db is [cities, stations, readings]; flag is "created", "updated" or
\* "raised"; asked is what the pass asked of the store, for the history.
StoreOpenAQ(db, r) ==
    LET c == CityGetOrCreate(db.cities, r.city, OpenAQCityDefaults(r))
        station_code == OpenAQStationCode(r)
        attrs == OpenAQStationAttrs(r, c.at)
        s == StationGetOrCreate(db.stations, station_code, attrs)
        defaults == OpenAQReadingDefaults(r, c.at)
        o == ReadingUpdateOrCreate(db.readings, s.at, r.timestamp, defaults)
    IN  IF c.raised THEN [db |-> db, flag |-> "raised", asked |-> None]
        ELSE IF s.raised
        THEN [db |-> [db EXCEPT !.cities = c.rows], flag |-> "raised", asked |-> None]
        ELSE IF o.raised
        THEN [db |-> [db EXCEPT !.cities = c.rows, !.stations = s.rows],
              flag |-> "raised", asked |-> None]
        ELSE [db |-> [cities |-> c.rows, stations |-> s.rows, readings |-> o.rows],
              flag |-> IF o.created THEN "created" ELSE "updated",
              asked |-> Some(Asked(s, attrs, o, defaults))]

\* the lookups and defaults of store_data for an entry
WaqiCityDefaults(entry) == [latitude |-> None, longitude |-> None, country |-> India]
WaqiStationCode(entry) ==
    Take(Replace(entry.city, <<" ">>, <<"_">>) \o <<"_">>
         \o FloatToStr(Round3(entry.lat)) \o <<"_">>
         \o FloatToStr(Round3(entry.lon)),
         CodeMaxLen)
WaqiStationAttrs(entry, city) ==
    [city |-> city,
     name |-> entry.city \o <<" ","S","t","a","t","i","o","n">>,
     latitude |-> Some(entry.lat), longitude |-> Some(entry.lon),
     data_source |-> "WAQI"]
WaqiReadingDefaults(entry, city) ==
    [city |-> city, aqi |-> Some(entry.aqi),
     pm25 |-> None, pm10 |-> None, no2 |-> None, so2 |-> None,
     o3 |-> None, co |-> None, nh3 |-> None,
     raw_data |-> entry.raw]

\* One pass of the loop of store_data (fetch_india_aqi.py) over an entry.
StoreWaqi(db, entry) ==
    LET c == CityGetOrCreate(db.cities, entry.city, WaqiCityDefaults(entry))
        attrs == WaqiStationAttrs(entry, c.at)
        s == StationGetOrCreate(db.stations, WaqiStationCode(entry), attrs)
        defaults == WaqiReadingDefaults(entry, c.at)
        o == ReadingUpdateOrCreate(db.readings, s.at, entry.timestamp, defaults)
    IN  IF c.raised THEN [db |-> db, flag |-> "raised", asked |-> None]
        ELSE IF s.raised
        THEN [db |-> [db EXCEPT !.cities = c.rows], flag |-> "raised", asked |-> None]
        ELSE IF o.raised
        THEN [db |-> [db EXCEPT !.cities = c.rows, !.stations = s.rows],
              flag |-> "raised", asked |-> None]
        ELSE [db |-> [cities |-> c.rows, stations |-> s.rows, readings |-> o.rows],
              flag |-> IF o.created THEN "created" ELSE "updated",
              asked |-> Some(Asked(s, attrs, o, defaults))]

(***************************************************************************)
(* The telemetry ingestion commands: fetch_aqi (OpenAQ) and fetch_india_aqi *)
(* (WAQI).  One command runs at a time.  A run is its fetch (Begin...),    *)
(* one action per pass of its store loop (Store...) and its report         *)
(* (End...).  The items of the upstream list are drawn one per pass: the   *)
(* upstream fixed them before the run, and nothing the run does depends on *)
(* an item before its pass, except that a fetch raises as a whole when any *)
(* list entry is not an object, which Begin... decides.                    *)
(***************************************************************************)
MaxClock == 2       \* the clock's last reading in one behaviour
MaxBatch == 2       \* items in one upstream response
MaxRows  == 3       \* rows of the readings table

Pune     == <<"P","u","n","e">>
Agra     == <<"A","g","r","a">>
MGRoad   == <<"M","G"," ","R","d">>
MG_Road  == <<"M","G","_","R","d">>
PuneCode == <<"P","u","n","e","_","1","8",".","5","2","_","7","3",".","8","5","7">>

Coordinates(lat, lon) == Some([latitude |-> Some(lat), longitude |-> Some(lon)])
Measurement(param, value) == [parameter |-> param, value |-> Some(value)]

OpenAQItem(city, location, coordinates, measurements) ==
    [shape |-> "dict", city |-> city, location |-> location,
     coordinates |-> coordinates, measurements |-> measurements]

\* a list entry that is not an object
OpenAQBadItem ==
    [shape |-> "other", city |-> None, location |-> None,
     coordinates |-> None, measurements |-> << >>]

OpenAQItems ==
    { OpenAQItem(Some(Pune), Some(MGRoad), Coordinates(185200, 738500),
                 <<Measurement("pm25", 4000), Measurement("no2", 1200)>>),
      \* the same station code, another name and city, no coordinates, no PM
      OpenAQItem(None, Some(MG_Road), None, << >>),
      \* the same station, other values; its index is 2
      OpenAQItem(Some(Pune), Some(MGRoad), Coordinates(185200, 738500),
                 <<Measurement("pm25", 50), Measurement("co", 30)>>),
      \* a location spelled like a WAQI station code
      OpenAQItem(Some(Agra), Some(PuneCode), Coordinates(271800, 780100),
                 <<Measurement("pm10", 20000)>>) }

WaqiItem(station, city, aqiValue, lat, lon) ==
    [shape |-> "dict", station |-> station, city |-> city, aqi |-> aqiValue,
     lat |-> lat, lon |-> lon]

\* a list entry that is not an object
WaqiBadItem ==
    [shape |-> "other", station |-> JNull, city |-> JNull, aqi |-> JNull,
     lat |-> None, lon |-> None]

WaqiItems ==
    { WaqiItem(JObj(Some(<<"P","u","n","e"," ","(","M","P","C","B",")">>), None),
               JNull, JStr(<<"4","2">>), Some(185204), Some(738567)),
      \* the same station code from another spelling and other coordinates
      WaqiItem(JStr(<<"p","u","n","e">>), JNull, JInt(60), Some(185201), Some(738567)),
      \* an index below the floor
      WaqiItem(JNull, JStr(<<"a","g","r","a">>), JInt(3), Some(271767), Some(780081)),
      \* no index and no coordinates
      WaqiItem(JStr(Agra), JNull, JStr(<<"-">>), None, None) }

\* What decides whether a fetch raises: the fault of the response and
\* whether its list holds an entry that is not an object.
Probe(fault, illShaped, BadItem) ==
    [fault |-> fault,
     items |-> IF illShaped /\ fault \in {"none", "http_status"}
               THEN <<BadItem>> ELSE << >>]

NoReport == [command |-> "none", outcome |-> "none", created |-> 0, updated |-> 0]
NoRun    == [command |-> "none", now |-> 0, limit |-> 0, count |-> 0,
             kept |-> 0, created |-> 0, updated |-> 0]

IdleAqi ==
    /\ pollutant = "pm25" /\ conc = None /\ aqiCalled = FALSE /\ aqi = None
    /\ runMax = None /\ tupleFrom = None

IdleOverall ==
    pm25 = None /\ pm10 = None /\ overallCalled = FALSE /\ overall = None

NoOutcome == [adapter |-> "none", resp |-> << >>, raised |-> FALSE, records |-> << >>]

IdleFetch == outcome = NoOutcome

IdlePure ==
    /\ fn = "none" /\ args = << >> /\ called = FALSE
    /\ result = None /\ again = None

NoIngest ==
    [active |-> FALSE, refresh |-> FALSE, category |-> None, type |-> 0,
     seen |-> {}, count |-> 0, created |-> 0, updated |-> 0, skipped |-> 0]

IdleCatalog ==
    /\ products = << >> /\ ingest = NoIngest
    /\ ingestReport = None /\ candidate = None

NoNews == [active |-> FALSE, count |-> 0, saved |-> 0, updated |-> 0]

IdleNews ==
    /\ articles = << >> /\ news = NoNews
    /\ newsReport = None /\ arrival = None

Workers == {1, 2}

NoWorker ==
    [pc |-> "idle", command |-> "none", now |-> 0, count |-> 0, rec |-> None,
     city |-> 0, station |-> 0, created |-> 0, updated |-> 0]

IdleRace == workers = [w \in Workers |-> NoWorker]

NoReplay ==
    [run |-> "none", batch |-> << >>, at |-> 0, after |-> << >>,
     saved |-> 0, updated |-> 0]

IdleReplay == replay = NoReplay

IdleStore ==
    /\ cities = << >> /\ stations = << >> /\ readings = << >>
    /\ clock = 0 /\ report = NoReport /\ run = NoRun /\ upsert = None

Init ==
    /\ cities = << >> /\ stations = << >> /\ readings = << >>
    /\ clock = 0 /\ report = NoReport /\ run = NoRun /\ upsert = None
    /\ IdleAqi /\ IdleOverall /\ IdleFetch /\ IdlePure /\ IdleCatalog /\ IdleNews
    /\ IdleRace
    /\ IdleReplay

Db == [cities |-> cities, stations |-> stations, readings |-> readings]

\* The run ends with the outcome `how`; its counts are reported when it is "done".
Finish(how) ==
    /\ report' = [command |-> run.command, outcome |-> how,
                  created |-> IF how = "done" THEN run.created ELSE 0,
                  updated |-> IF how = "done" THEN run.updated ELSE 0]
    /\ run' = NoRun

\* The store has taken one record: res is what the pass returned.
Stored(res, time) ==
    /\ Len(res.db.readings) <= MaxRows
    /\ cities' = res.db.cities
    /\ stations' = res.db.stations
    /\ readings' = res.db.readings
    /\ clock' = time
    /\ upsert' = IF res.asked = None THEN None
                 ELSE Some([flag |-> res.flag, rowsBefore |-> Len(readings),
                            timestamp |-> time,
                            was |-> IF res.flag = "updated"
                                    THEN Some(readings[Val(res.asked).reading])
                                    ELSE None]
                           @@ Val(res.asked))
    /\ IF res.flag = "raised"
       THEN Finish("crashed")
       ELSE /\ run' = [run EXCEPT
                         !.now = time,
                         !.count = @ + 1,
                         !.kept = @ + 1,
                         !.created = @ + (IF res.flag = "created" THEN 1 ELSE 0),
                         !.updated = @ + (IF res.flag = "updated" THEN 1 ELSE 0)]
            /\ UNCHANGED report

\* fetch_aqi.Command.handle, up to the loop: the fetch, caught when it raises
BeginFetchAqi ==
    /\ run.command = "none"
    /\ clock < MaxClock
    /\ \E fault \in Faults, illShaped \in BOOLEAN :
          LET now     == clock + 1
              fetched == collect_and_prepare_readings(
                             Probe(fault, illShaped, OpenAQBadItem), now)
          IN  /\ clock' = now
              /\ IF fetched.raised
                 THEN /\ report' = [command |-> "fetch_aqi", outcome |-> "fetch_failed",
                                    created |-> 0, updated |-> 0]
                      /\ UNCHANGED run
                 ELSE /\ run' = [NoRun EXCEPT !.command = "fetch_aqi", !.now = now,
                                   !.limit = IF fault = "error" THEN 0 ELSE MaxBatch]
                      /\ UNCHANGED report
    /\ UNCHANGED <<cities, stations, readings, upsert, aqiVars, overallVars, fetchVars, pureVars, catalogVars, newsVars, raceVars, replayVars>>

\* one pass of the loop of fetch_aqi.Command.handle
StoreFetchAqi ==
    /\ run.command = "fetch_aqi"
    /\ run.count < run.limit
    /\ \E item \in OpenAQItems :
          Stored(StoreOpenAQ(Db, PrepareReading(item, run.now)), run.now)
    /\ UNCHANGED <<aqiVars, overallVars, fetchVars, pureVars, catalogVars, newsVars, raceVars, replayVars>>

\* fetch_aqi.Command.handle, after the loop
EndFetchAqi ==
    /\ run.command = "fetch_aqi"
    /\ Finish("done")
    /\ UNCHANGED <<cities, stations, readings, clock, upsert, aqiVars, overallVars, fetchVars, pureVars, catalogVars, newsVars, raceVars, replayVars>>

\* fetch_india_aqi.Command.handle, up to the loops: the fetch, not caught
BeginFetchIndiaAqi ==
    /\ run.command = "none"
    /\ clock < MaxClock
    /\ \E fault \in Faults, illShaped \in BOOLEAN :
          LET now  == clock + 1
              data == fetch_india_aqi(Probe(fault, illShaped, WaqiBadItem), <<now>>)
          IN  /\ clock' = now
              /\ IF data.raised
                 THEN /\ report' = [command |-> "fetch_india_aqi", outcome |-> "crashed",
                                    created |-> 0, updated |-> 0]
                      /\ UNCHANGED run
                 ELSE /\ run' = [NoRun EXCEPT !.command = "fetch_india_aqi", !.now = now,
                                   !.limit = IF fault = "error" THEN 0 ELSE MaxBatch]
                      /\ UNCHANGED report
    /\ UNCHANGED <<cities, stations, readings, upsert, aqiVars, overallVars, fetchVars, pureVars, catalogVars, newsVars, raceVars, replayVars>>

\* one item of the upstream list through fetch_india_aqi's loop and, when it
\* is kept, through store_data's; the clock may have advanced since the
\* item before
StoreFetchIndiaAqi ==
    /\ run.command = "fetch_india_aqi"
    /\ run.count < run.limit
    /\ \E item \in WaqiItems, tick \in {0, 1} :
          LET time  == run.now + tick
              entry == CleanEntry(item, time)
          IN  /\ time <= MaxClock
              /\ IF entry = None
                 THEN /\ tick = 0
                      /\ run' = [run EXCEPT !.count = @ + 1]
                      /\ UNCHANGED <<cities, stations, readings, clock, report, upsert>>
                 ELSE Stored(StoreWaqi(Db, Val(entry)), time)
    /\ UNCHANGED <<aqiVars, overallVars, fetchVars, pureVars, catalogVars, newsVars, raceVars, replayVars>>

\* fetch_india_aqi.Command.handle, after the loops
EndFetchIndiaAqi ==
    /\ run.command = "fetch_india_aqi"
    /\ Finish(IF run.kept = 0 THEN "no_data" ELSE "done")
    /\ UNCHANGED <<cities, stations, readings, clock, upsert, aqiVars, overallVars, fetchVars, pureVars, catalogVars, newsVars, raceVars, replayVars>>

Next ==
    \/ BeginFetchAqi \/ StoreFetchAqi \/ EndFetchAqi
    \/ BeginFetchIndiaAqi \/ StoreFetchIndiaAqi \/ EndFetchIndiaAqi

Spec == Init /\ [][Next]_vars

(***************************************************************************)
(* Two runs of the telemetry commands at once.  Each run is a process of   *)
(* its own against the one database, so the runs interleave between the    *)
(* calls of the store.  Station.code is unique and (station, timestamp) is *)
(* unique together, so get_or_create on the one and update_or_create on    *)
(* the other take effect as one step.  City.name is indexed and not        *)
(* unique: get_or_create(name=...) is a lookup and, when it finds no row,  *)
(* an insert that nothing keeps another run's insert from preceding.       *)
(***************************************************************************)
Holds(w)   == Val(workers[w].rec)
IsOpenAQ(w) == workers[w].command = "fetch_aqi"

InitRace ==
    /\ IdleStore /\ IdleRace
    /\ IdleAqi /\ IdleOverall /\ IdleFetch /\ IdlePure /\ IdleCatalog /\ IdleNews
    /\ IdleReplay

\* a command starts and has fetched; the runs read the same instant, which
\* gives their records the same timestamps
RaceBegin(w) ==
    /\ workers[w].pc = "idle"
    /\ \E command \in {"fetch_aqi", "fetch_india_aqi"} :
          workers' = [workers EXCEPT ![w] =
                        [NoWorker EXCEPT !.pc = "loop", !.command = command,
                                         !.now = clock + 1]]
    /\ UNCHANGED <<storeVars, aqiVars, overallVars, fetchVars, pureVars, catalogVars, newsVars, replayVars>>

\* the lookup of City.objects.get_or_create(name=...) for the next record
RaceCityLookup(w) ==
    /\ workers[w].pc = "loop"
    /\ workers[w].count < MaxBatch
    /\ \E rec \in IF workers[w].command = "fetch_aqi"
                  THEN {PrepareReading(item, workers[w].now) : item \in OpenAQItems}
                  ELSE {Val(CleanEntry(item, workers[w].now)) :
                           item \in {i \in WaqiItems : CleanEntry(i, workers[w].now) # None}} :
          LET hits == {i \in 1..Len(cities) : cities[i].name = rec.city}
          IN  workers' = [workers EXCEPT ![w] =
                  IF Cardinality(hits) > 1 THEN [@ EXCEPT !.pc = "crashed"]
                  ELSE IF hits = {} THEN [@ EXCEPT !.pc = "city", !.rec = Some(rec)]
                  ELSE [@ EXCEPT !.pc = "station", !.rec = Some(rec),
                                 !.city = CHOOSE i \in hits : TRUE]]
    /\ UNCHANGED <<storeVars, aqiVars, overallVars, fetchVars, pureVars, catalogVars, newsVars, replayVars>>

\* its insert, the lookup having found no row
RaceCityInsert(w) ==
    /\ workers[w].pc = "city"
    /\ cities' = Append(cities,
                    [name |-> Holds(w).city]
                    @@ (IF IsOpenAQ(w) THEN OpenAQCityDefaults(Holds(w))
                        ELSE WaqiCityDefaults(Holds(w))))
    /\ workers' = [workers EXCEPT ![w].pc = "station", ![w].city = Len(cities) + 1]
    /\ UNCHANGED <<stations, readings, clock, report, run, upsert>>
    /\ UNCHANGED <<aqiVars, overallVars, fetchVars, pureVars, catalogVars, newsVars, replayVars>>

\* Station.objects.get_or_create(code=..., defaults=...)
RaceStation(w) ==
    /\ workers[w].pc = "station"
    /\ LET s == IF IsOpenAQ(w)
                THEN StationGetOrCreate(stations, OpenAQStationCode(Holds(w)),
                                        OpenAQStationAttrs(Holds(w), workers[w].city))
                ELSE StationGetOrCreate(stations, WaqiStationCode(Holds(w)),
                                        WaqiStationAttrs(Holds(w), workers[w].city))
       IN  /\ stations' = s.rows
           /\ workers' = [workers EXCEPT ![w] =
                   IF s.raised THEN [@ EXCEPT !.pc = "crashed"]
                   ELSE [@ EXCEPT !.pc = "reading", !.station = s.at]]
    /\ UNCHANGED <<cities, readings, clock, report, run, upsert>>
    /\ UNCHANGED <<aqiVars, overallVars, fetchVars, pureVars, catalogVars, newsVars, replayVars>>

\* AQIReading.objects.update_or_create(station=, timestamp=, defaults=), and
\* the count of the pass
RaceReading(w) ==
    /\ workers[w].pc = "reading"
    /\ LET o == ReadingUpdateOrCreate(readings, workers[w].station, Holds(w).timestamp,
                    IF IsOpenAQ(w)
                    THEN OpenAQReadingDefaults(Holds(w), workers[w].city)
                    ELSE WaqiReadingDefaults(Holds(w), workers[w].city))
       IN  /\ Len(o.rows) <= MaxRows
           /\ readings' = o.rows
           /\ workers' = [workers EXCEPT ![w] =
                   IF o.raised THEN [@ EXCEPT !.pc = "crashed"]
                   ELSE [@ EXCEPT !.pc = "loop", !.rec = None, !.count = @ + 1,
                            !.created = @ + (IF o.created THEN 1 ELSE 0),
                            !.updated = @ + (IF o.created THEN 0 ELSE 1)]]
    /\ UNCHANGED <<cities, stations, clock, report, run, upsert>>
    /\ UNCHANGED <<aqiVars, overallVars, fetchVars, pureVars, catalogVars, newsVars, replayVars>>

\* the loop is over and the counts are printed
RaceEnd(w) ==
    /\ workers[w].pc = "loop"
    /\ workers' = [workers EXCEPT ![w].pc = "done"]
    /\ UNCHANGED <<storeVars, aqiVars, overallVars, fetchVars, pureVars, catalogVars, newsVars, replayVars>>

NextRace ==
    \E w \in Workers :
        \/ RaceBegin(w) \/ RaceCityLookup(w) \/ RaceCityInsert(w)
        \/ RaceStation(w) \/ RaceReading(w) \/ RaceEnd(w)

SpecRace == InitRace /\ [][NextRace]_vars

(***************************************************************************)
(* The fetch functions of the adapters, each called once on an upstream    *)
(* response.                                                               *)
(***************************************************************************)
RECURSIVE SeqsUpTo(_, _)
\* the sequences over S of length at most n
SeqsUpTo(S, n) ==
    IF n = 0 THEN { << >> }
    ELSE LET shorter == SeqsUpTo(S, n - 1)
         IN  shorter \cup { Append(q, x) : q \in shorter, x \in S }

\* A response that arrived carries a body, whatever its status.
Responses(Items) ==
    { [fault |-> f, items |-> q] :
        f \in {"none", "http_status"}, q \in SeqsUpTo(Items, MaxBatch) }
    \cup { [fault |-> f, items |-> << >>] : f \in {"connection", "bad_json", "error"} }

GdeltItem(title, excerpt, summary, url, source, domain, seendate, date) ==
    [shape |-> "dict", title |-> title, excerpt |-> excerpt, summary |-> summary,
     url |-> url, source |-> source, domain |-> domain, seendate |-> seendate,
     date |-> date]

\* a list entry that is not an object
GdeltBadItem ==
    [shape |-> "other", title |-> None, excerpt |-> None, summary |-> None,
     url |-> None, source |-> None, domain |-> None, seendate |-> None,
     date |-> None]

GdeltItems ==
    { GdeltItem(Some(<<"S","m","o","g">>), Some(<<"e">>), Some(<<"s">>),
                Some(<<"u","1">>), Some(<<"x">>), Some(<<"d">>),
                Some(<<"t">>), Some(<<"z">>)),
      GdeltItem(None, None, Some(<<"s">>), Some(<<"u","2">>), None, None,
                Some(Empty), Some(<<"z">>)) }

\* content type and body of the responses that arrive
GdeltBodies ==
    { <<"json", "json">>, <<"other", "json">>, <<"csv", "csv">>,
      <<"csv", "csv_url">>, <<"other", "csv_url">>, <<"other", "other">> }

GdeltResponses ==
    { [fault |-> f, contentType |-> b[1], body |-> b[2], items |-> q] :
        f \in {"none", "http_status"}, b \in GdeltBodies,
        q \in SeqsUpTo(GdeltItems \cup {GdeltBadItem}, MaxBatch) }
    \cup { [fault |-> "bad_json", contentType |-> "json", body |-> "other",
            items |-> << >>],
           [fault |-> "error", contentType |-> "json", body |-> "json",
            items |-> << >>],
           [fault |-> "connection", contentType |-> "other", body |-> "other",
            items |-> << >>] }

\* The rows of a CSV text are dictionaries; a body that is neither JSON nor
\* CSV has no items.
WellFormed(resp) ==
    /\ resp.body \in {"csv", "csv_url"} =>
          \A k \in 1..Len(resp.items) : resp.items[k].shape = "dict"
    /\ resp.body = "other" => resp.items = << >>

ProductItem(title, snippet, extracted_price, thumbnail, product_link, source, rating, reviews, delivery) ==
    [shape |-> "dict", title |-> title, snippet |-> snippet,
     extracted_price |-> extracted_price, thumbnail |-> thumbnail,
     product_link |-> product_link, source |-> source, rating |-> rating,
     reviews |-> reviews, delivery |-> delivery]

\* a list entry that is not an object
ProductBadItem ==
    [shape |-> "other", title |-> None, snippet |-> None,
     extracted_price |-> None, thumbnail |-> None, product_link |-> None,
     source |-> None, rating |-> None, reviews |-> None, delivery |-> None]

N95   == <<"N","9","5">>
Fern  == <<"F","e","r","n">>

ProductItems ==
    { ProductItem(Some(N95), Some(<<"m","a","s","k">>), Some(59900),
                  Some(<<"t","1">>), Some(<<"l","1">>), Some(<<"s","h","o","p">>),
                  Some(45), Some(2800), Some(<<"f","r","e","e">>)),
      \* the same name in another case, with other values
      ProductItem(Some(<<"n","9","5">>), None, Some(49900), None,
                  Some(<<"l","2">>), None, Some(40), Some(5000), None),
      ProductItem(Some(Fern), None, Some(9900), None, None, None,
                  Some(48), Some(12000), None),
      \* no price
      ProductItem(Some(<<"A","i","r">>), None, None, None, None, None,
                  Some(39), Some(10), None),
      \* a price of zero
      ProductItem(Some(N95), None, Some(0), None, Some(<<"l","3">>), None,
                  Some(50), Some(7000), None),
      \* no title
      ProductItem(None, None, Some(100), None, None, None, None, None, None) }

InitFetch ==
    /\ outcome = NoOutcome
    /\ IdleStore /\ IdleAqi /\ IdleOverall /\ IdlePure /\ IdleCatalog /\ IdleNews
    /\ IdleRace
    /\ IdleReplay

Called(adapter, resp, res) ==
    outcome' = [adapter |-> adapter, resp |-> resp,
                raised |-> res.raised, records |-> res.records]

CallCollectAndPrepareReadings ==
    /\ outcome = NoOutcome
    /\ \E resp \in Responses(OpenAQItems \cup {OpenAQBadItem}) :
          Called("collect_and_prepare_readings", resp,
                 collect_and_prepare_readings(resp, 1))
    /\ UNCHANGED <<storeVars, aqiVars, overallVars, pureVars, catalogVars, newsVars, raceVars, replayVars>>

CallFetchIndiaAqi ==
    /\ outcome = NoOutcome
    /\ \E resp \in Responses(WaqiItems \cup {WaqiBadItem}) :
          Called("fetch_india_aqi", resp,
                 fetch_india_aqi(resp, [k \in 1..Len(resp.items) |-> k]))
    /\ UNCHANGED <<storeVars, aqiVars, overallVars, pureVars, catalogVars, newsVars, raceVars, replayVars>>

CallFetchAllIndiaWaqi ==
    /\ outcome = NoOutcome
    /\ \E resp \in Responses(WaqiItems \cup {WaqiBadItem}) :
          Called("fetch_all_india_wAQI", resp, fetch_all_india_wAQI(resp, 1))
    /\ UNCHANGED <<storeVars, aqiVars, overallVars, pureVars, catalogVars, newsVars, raceVars, replayVars>>

CallFetchGdeltArticles ==
    /\ outcome = NoOutcome
    /\ \E resp \in GdeltResponses :
          /\ WellFormed(resp)
          /\ Called("fetch_gdelt_articles", resp, fetch_gdelt_articles(resp))
    /\ UNCHANGED <<storeVars, aqiVars, overallVars, pureVars, catalogVars, newsVars, raceVars, replayVars>>

CallFetchProducts ==
    /\ outcome = NoOutcome
    /\ \E resp \in Responses(ProductItems \cup {ProductBadItem}),
          max_results \in 1..MaxBatch :
          Called("fetch_products", resp,
                 fetch_products(resp, max_results))
    /\ UNCHANGED <<storeVars, aqiVars, overallVars, pureVars, catalogVars, newsVars, raceVars, replayVars>>

NextFetch ==
    \/ CallCollectAndPrepareReadings \/ CallFetchIndiaAqi \/ CallFetchAllIndiaWaqi
    \/ CallFetchGdeltArticles \/ CallFetchProducts

SpecFetch == InitFetch /\ [][NextFetch]_vars

(***************************************************************************)
(* The fetch_products command (fetch_products.py).  A run takes its        *)
(* options, clears the catalog when asked, and passes once through the     *)
(* loop's body for each candidate the fetcher hands it; the candidates are *)
(* drawn one per pass.  Prices are in hundredths and ratings in tenths.    *)
(* created_at and updated_at are left out: nothing reads them here.        *)
(***************************************************************************)
Lower(s) == [i \in DOMAIN s |-> ToLower(s[i])]

\* name__iexact on plain ASCII names
iexact(a, b) == Lower(a) = Lower(b)

\* the keys of the fetcher's categories and of queries_map, in dict order
ProductTypes ==
    <<"mask", "purifier", "room_purifier", "monitor", "car-filter", "plant">>

(***************************************************************************)
(* The catalog fetch over queries (product_fetcher.fetch_all_categories    *)
(* and the --category branch of fetch_products' handle).  Each query gets  *)
(* a response of its own; a category's responses are a sequence in the     *)
(* order of its queries.                                                   *)
(***************************************************************************)
QueriesPerCategory == 2          \* queries tried for a category
AllCategoriesMaxResults == 10    \* max_results of fetch_all_categories' calls
FetchedTypes == {1, 2}           \* the categories fetched, as places in ProductTypes

\* category_products / all_products[category] after the first q queries
RECURSIVE CategoryProducts(_, _, _)
CategoryProducts(row, q, max_results) ==
    IF q = 0 THEN << >>
    ELSE CategoryProducts(row, q - 1, max_results)
         \o fetch_products(row[q], max_results).records

\* "Remove duplicates by name": of the first n products, those with a name
\* that no earlier one has, whatever the case
RECURSIVE UniqueProducts(_, _)
UniqueProducts(list, n) ==
    IF n = 0 THEN << >>
    ELSE LET name == Lower(list[n].name)
             rest == UniqueProducts(list, n - 1)
         IN  IF name # Empty /\ \A k \in 1..(n - 1) : Lower(list[k].name) # name
             THEN Append(rest, list[n])
             ELSE rest

\* The mutant empties a category when one of its queries fails.
FetchAllOrNothing(resps) ==
    [c \in DOMAIN resps |->
        IF \E q \in 1..Len(resps[c]) : resps[c][q].fault # "none" THEN << >>
        ELSE LET category_products ==
                     CategoryProducts(resps[c], Len(resps[c]), AllCategoriesMaxResults)
             IN  UniqueProducts(category_products, Len(category_products))]

fetch_all_categories(resps) ==
    [c \in DOMAIN resps |->
        LET category_products ==
                CategoryProducts(resps[c], Len(resps[c]), AllCategoriesMaxResults)
        IN  UniqueProducts(category_products, Len(category_products))]

\* handle with --category: the products of the category's queries, as fetched
fetch_category(row, max_per_query) == CategoryProducts(row, Len(row), max_per_query)

\* the responses a query may get: a product (a name, the same name in another
\* case, no name), none, an error payload, an exception out of the request
QueryItems == {it \in ProductItems : it.title \in {None, Some(Lower(N95))} \/ it.snippet # None}
QueryResponses ==
    { [fault |-> "none", items |-> q] : q \in SeqsUpTo(QueryItems, 1) }
    \cup { [fault |-> f, items |-> << >>] : f \in {"error", "connection"} }

CategoryResponses == [1..QueriesPerCategory -> QueryResponses]

InitCatalogFetch ==
    /\ IdleStore /\ IdleAqi /\ IdleOverall /\ IdleFetch /\ IdlePure /\ IdleCatalog
    /\ IdleNews /\ IdleRace
    /\ IdleReplay

CallFetchAllCategories ==
    /\ outcome = NoOutcome
    /\ \E resps \in [FetchedTypes -> CategoryResponses] :
          Called("fetch_all_categories", resps, Returned(fetch_all_categories(resps)))
    /\ UNCHANGED <<storeVars, aqiVars, overallVars, pureVars, catalogVars, newsVars, raceVars, replayVars>>

CallFetchCategory ==
    /\ outcome = NoOutcome
    /\ \E row \in CategoryResponses, max_per_query \in 1..MaxBatch :
          Called("fetch_category", <<row, max_per_query>>,
                 Returned(fetch_category(row, max_per_query)))
    /\ UNCHANGED <<storeVars, aqiVars, overallVars, pureVars, catalogVars, newsVars, raceVars, replayVars>>

NextCatalogFetch == CallFetchAllCategories \/ CallFetchCategory

SpecCatalogFetch == InitCatalogFetch /\ [][NextCatalogFetch]_vars

aqi_ranges(product_type) ==
    CASE product_type = "mask"          -> <<50, 300>>
      [] product_type = "purifier"      -> <<100, 500>>
      [] product_type = "room_purifier" -> <<50, 500>>
      [] product_type = "monitor"       -> <<0, 500>>
      [] product_type = "car-filter"    -> <<100, 300>>
      [] product_type = "plant"         -> <<0, 150>>
      [] OTHER                          -> <<0, 500>>

effectiveness_by_type(product_type) ==
    CASE product_type = "mask"          -> 85
      [] product_type = "purifier"      -> 95
      [] product_type = "room_purifier" -> 90
      [] product_type = "monitor"       -> 70
      [] product_type = "car-filter"    -> 80
      [] product_type = "plant"         -> 60
      [] OTHER                          -> 75

Min2(a, b) == IF a <= b THEN a ELSE b

RatingBoost(rating)  == IF rating >= 45 THEN 5 ELSE IF rating >= 40 THEN 3 ELSE 0
ReviewBoost(reviews) == IF reviews >= 5000 THEN 5 ELSE IF reviews >= 1000 THEN 3 ELSE 0

\* the same sum without the cap
EffectivenessUncapped(item, default) ==
    default + RatingBoost(item.rating) + ReviewBoost(item.reviews)

_calculate_effectiveness(item, default) ==
    Min2(default + RatingBoost(item.rating) + ReviewBoost(item.reviews), 100)

\* the features as tagged values in the order the code appends them
_extract_features(item) ==
    Take((IF item.delivery # Empty THEN << <<"delivery", item.delivery>> >> ELSE << >>)
         \o (IF item.source # Empty THEN << <<"available at", item.source>> >> ELSE << >>)
         \o (IF item.rating > 0 THEN << <<"rated", item.rating>> >> ELSE << >>)
         \o (IF item.reviews > 0 THEN << <<"reviews", item.reviews>> >> ELSE << >>),
         5)

type_recommendations(product_type) ==
    CASE product_type = "mask"          -> {"Daily commute", "Outdoor activities", "Cycling"}
      [] product_type = "purifier"      -> {"Bedrooms", "Living rooms", "Offices"}
      [] product_type = "room_purifier" -> {"Small rooms", "Bedrooms", "Study rooms"}
      [] product_type = "monitor"       -> {"Home monitoring", "Office spaces", "Schools"}
      [] product_type = "car-filter"    -> {"Daily commuters", "Long drives", "City traffic"}
      [] product_type = "plant"         -> {"Home decor", "Natural purification",
                                            "Low pollution areas"}
      [] OTHER                          -> {}

\* list(set(recommendations))[:5]: the order of a set of strings changes
\* from one process to the next, so the list is kept as what it is known to
\* be: `keep` members of `from` (all of them when there are no more)
_get_recommended_for(product_type, aqi_min, aqi_max) ==
    [from |-> type_recommendations(product_type)
              \cup (IF aqi_max >= 200 THEN {"High pollution areas"} ELSE {})
              \cup (IF aqi_min <= 50 THEN {"Preventive care"} ELSE {})
              \cup (IF product_type \in {"mask", "purifier", "room_purifier"}
                    THEN {"Asthma patients", "Elderly", "Children"} ELSE {}),
     keep |-> 5]

ProductData(item, product_type) ==
    [name            |-> Take(item.name, NameMaxLen),
     product_type    |-> product_type,
     description     |-> Take(item.description, DescriptionMaxLen),
     price           |-> item.price,
     image_url       |-> item.image_url,
     product_url     |-> item.product_url,
     aqi_min         |-> aqi_ranges(product_type)[1],
     aqi_max         |-> aqi_ranges(product_type)[2],
     effectiveness   |-> _calculate_effectiveness(
                             item, effectiveness_by_type(product_type)),
     rating          |-> item.rating,
     reviews         |-> item.reviews,
     features        |-> _extract_features(item),
     recommended_for |-> _get_recommended_for(product_type,
                             aqi_ranges(product_type)[1],
                             aqi_ranges(product_type)[2])]

\* a save that writes nothing
SetAttrsNone(row, data) == row

\* setattr over product_data, then save: the fields product_data names
\* replace the row's, the others stay
SetAttrs(row, data) ==
    [f \in DOMAIN row |-> IF f \in DOMAIN data THEN data[f] ELSE row[f]]

\* the order of product_type values in the database
TypeOrder ==
    <<"car-filter", "mask", "monitor", "plant", "purifier", "room_purifier">>
TypeRank(product_type) == CHOOSE i \in 1..Len(TypeOrder) : TypeOrder[i] = product_type

\* Meta.ordering of Product: product_type, then effectiveness descending
Before(a, b) ==
    \/ TypeRank(a.product_type) < TypeRank(b.product_type)
    \/ /\ a.product_type = b.product_type
       /\ a.effectiveness > b.effectiveness

\* filter(name=name), case and all
ExactNameHits(rows, name) == {i \in 1..Len(rows) : rows[i].name = name}

\* filter(name__iexact=name)
NameHits(rows, name) == {i \in 1..Len(rows) : iexact(rows[i].name, name)}

\* the rows .first() may return: the ordering leaves ties to the database
Firsts(rows, hits) ==
    {i \in hits : \A j \in hits : ~Before(rows[j], rows[i])}

\* a body that lets every candidate through
UnusableNever(item) == FALSE

\* the test at the head of the loop's body
Unusable(item) == item.name = Empty \/ item.price = 0

\* One pass of the loop's body for a candidate of a category; `existing` is
\* the row .first() returned, 0 for none.
ProcessCandidate(rows, item, product_type, refresh, existing) ==
    IF Unusable(item)
    THEN [rows |-> rows, verdict |-> "skipped"]
    ELSE IF existing # 0 /\ ~refresh
    THEN [rows |-> rows, verdict |-> "skipped"]
    ELSE IF existing # 0
    THEN [rows |-> [rows EXCEPT
                      ![existing] = SetAttrs(@, ProductData(item, product_type))],
          verdict |-> "updated"]
    ELSE [rows |-> Append(rows, ProductData(item, product_type)),
          verdict |-> "created"]

\* a Product an administrator entered by hand, before any run
SeededProduct ==
    [name            |-> N95,
     product_type    |-> "monitor",
     description     |-> <<"o","l","d">>,
     price           |-> 10000,
     image_url       |-> <<"t","0">>,
     product_url     |-> <<"l","0">>,
     aqi_min         |-> 0,
     aqi_max         |-> 100,
     effectiveness   |-> 50,
     rating          |-> 30,
     reviews         |-> 5,
     features        |-> << <<"delivery", <<"p","a","i","d">> >> >>,
     recommended_for |-> [from |-> {"Schools"}, keep |-> 5]]

\* the categories the runs are tried with, as places in ProductTypes, and
\* a --category value that has no queries
TriedTypes == {1, 2, 6}
NoSuchCategory == "health"

InitProducts ==
    /\ products \in { << >>, <<SeededProduct>> }
    /\ ingest = NoIngest /\ ingestReport = None /\ candidate = None
    /\ IdleStore /\ IdleAqi /\ IdleOverall /\ IdleFetch /\ IdlePure /\ IdleNews
    /\ IdleRace
    /\ IdleReplay

\* handle, up to the loop: the options are read and --clear empties the table
BeginFetchProducts ==
    /\ ~ingest.active
    /\ \E category \in {None} \cup {Some(ProductTypes[t]) : t \in TriedTypes}
                             \cup {Some(NoSuchCategory)},
          refresh \in BOOLEAN, clear \in BOOLEAN :
          /\ products' = IF clear THEN << >> ELSE products
          /\ ingest' = [NoIngest EXCEPT !.active = TRUE, !.refresh = refresh,
                                        !.category = category]
    /\ candidate' = None
    /\ ingestReport' = None
    /\ UNCHANGED <<storeVars, aqiVars, overallVars, fetchVars, pureVars, newsVars, raceVars, replayVars>>

\* One pass of the loop's body.  With --category the candidates of that
\* category's queries come as fetched; without it fetch_all_categories hands
\* over the categories in dict order, each without empty names and without
\* a name it has seen in that category, whatever the case.
PassFetchProducts ==
    /\ ingest.active
    /\ ingest.count < MaxBatch
    /\ \E raw \in ProductItems, t \in TriedTypes :
          LET item == Val(_parse_product(raw))
              key  == Lower(item.name)
              hits == NameHits(products, item.name)
          IN  /\ IF ingest.category = None
                 THEN /\ t >= ingest.type
                      /\ key # Empty
                      /\ t = ingest.type => key \notin ingest.seen
                 ELSE Val(ingest.category) = ProductTypes[t]
              /\ \E existing \in (IF Unusable(item) \/ hits = {} THEN {0}
                                  ELSE Firsts(products, hits)) :
                    LET res == ProcessCandidate(products, item, ProductTypes[t],
                                                ingest.refresh, existing)
                    IN  /\ products' = res.rows
                        /\ ingest' =
                             [ingest EXCEPT
                                !.type    = t,
                                !.seen    = IF ingest.category # None THEN {}
                                            ELSE IF t = ingest.type THEN @ \cup {key}
                                            ELSE {key},
                                !.count   = @ + 1,
                                !.created = IF res.verdict = "created" THEN @ + 1 ELSE @,
                                !.updated = IF res.verdict = "updated" THEN @ + 1 ELSE @,
                                !.skipped = IF res.verdict = "skipped" THEN @ + 1 ELSE @]
                        /\ candidate' = Some([item |-> item,
                                              product_type |-> ProductTypes[t],
                                              refresh |-> ingest.refresh,
                                              existing |-> existing,
                                              verdict |-> res.verdict])
    /\ ingestReport' = ingestReport
    /\ UNCHANGED <<storeVars, aqiVars, overallVars, fetchVars, pureVars, newsVars, raceVars, replayVars>>

\* handle, after the loop: the summary
EndFetchProducts ==
    /\ ingest.active
    /\ ingestReport' = Some([created |-> ingest.created, updated |-> ingest.updated,
                             skipped |-> ingest.skipped, total |-> Len(products)])
    /\ ingest' = NoIngest
    /\ candidate' = None
    /\ UNCHANGED <<products, storeVars, aqiVars, overallVars, fetchVars, pureVars, newsVars, raceVars, replayVars>>

NextProducts ==
    \/ BeginFetchProducts
    \/ PassFetchProducts
    \/ EndFetchProducts

SpecProducts == InitProducts /\ [][NextProducts]_vars

(***************************************************************************)
(* The fetch_gdelt_news command (fetch_gdelt_news.py).  A run passes once  *)
(* through the loop's body for each article fetch_gdelt_articles returned; *)
(* the articles are drawn one per pass.  created_at is left out.           *)
(***************************************************************************)
ArticleTitleMaxLen  == 512
ArticleSourceMaxLen == 256

\* timezone.now(), for an article that came without a date
Now == <<"n","o","w">>

\* a.get("published_at") or timezone.now()
PublishedOrNow(a) ==
    IF a.published_at = None \/ a.published_at = Some(Empty) THEN Now
    ELSE Val(a.published_at)

\* the defaults of get_or_create, with the url it looks up
ArticleDefaults(a) ==
    [url          |-> a.url,
     title        |-> Take(a.title, ArticleTitleMaxLen),
     summary      |-> a.summary,
     source       |-> Take(a.source, ArticleSourceMaxLen),
     published_at |-> PublishedOrNow(a),
     raw_content  |-> Empty]

\* no row is ever found
ArticleHitsNone(rows, url) == {}

\* NewsArticle.objects.get(url=url)
ArticleHits(rows, url) == {i \in 1..Len(rows) : rows[i].url = url}

\* every field that differs, blank or not
UpdatedFieldsAnyChange(row, a) ==
    (IF row.title # Take(a.title, ArticleTitleMaxLen) THEN {"title"} ELSE {})
    \cup (IF row.summary # a.summary THEN {"summary"} ELSE {})
    \cup (IF row.source # Take(a.source, ArticleSourceMaxLen) THEN {"source"} ELSE {})

\* updated_fields of the branch for a row that was there
UpdatedFields(row, a) ==
    (IF a.title # Empty /\ row.title # Take(a.title, ArticleTitleMaxLen)
     THEN {"title"} ELSE {})
    \cup (IF a.summary # Empty /\ row.summary # a.summary THEN {"summary"} ELSE {})
    \cup (IF a.source # Empty /\ row.source # Take(a.source, ArticleSourceMaxLen)
          THEN {"source"} ELSE {})

\* the assignments, then save(update_fields=updated_fields)
SaveFields(row, a, fields) ==
    [row EXCEPT
       !.title   = IF "title" \in fields THEN Take(a.title, ArticleTitleMaxLen) ELSE @,
       !.summary = IF "summary" \in fields THEN a.summary ELSE @,
       !.source  = IF "source" \in fields THEN Take(a.source, ArticleSourceMaxLen) ELSE @]

\* One pass of the loop's body for an article.
StoreArticle(rows, a) ==
    IF a.url = Empty
    THEN [rows |-> rows, verdict |-> "no url", row |-> 0, written |-> {}]
    ELSE LET hits == ArticleHits(rows, a.url)
         IN  IF hits = {}
             THEN [rows |-> Append(rows, ArticleDefaults(a)), verdict |-> "saved",
                   row |-> Len(rows) + 1, written |-> {}]
             ELSE LET i == CHOOSE h \in hits : TRUE
                      fields == UpdatedFields(rows[i], a)
                  IN  [rows |-> [rows EXCEPT ![i] = SaveFields(@, a, fields)],
                       verdict |-> IF fields # {} THEN "updated" ELSE "same",
                       row |-> i, written |-> fields]

U1 == <<"u","1">>
U2 == <<"u","2">>
Smog == <<"S","m","o","g">>
Haze == <<"H","a","z","e">>

\* a title one character longer than the column
LongTitle == [i \in 1..(ArticleTitleMaxLen + 1) |-> "a"]

\* entries of the JSON body's article list: title, excerpt, summary, url,
\* source, domain, seendate, date
NewsItems ==
    { GdeltItem(Some(Smog), Some(<<"e">>), None, Some(U1), Some(<<"x">>), None,
                Some(<<"t">>), None),
      \* another title
      GdeltItem(Some(Haze), Some(<<"e">>), None, Some(U1), Some(<<"x">>), None,
                Some(<<"t">>), None),
      \* another summary and source, no date
      GdeltItem(Some(Smog), None, Some(<<"f">>), Some(U1), Some(<<"y">>), None,
                None, None),
      \* nothing but the url and another date
      GdeltItem(None, None, None, Some(U1), None, None, None, Some(<<"z">>)),
      \* empty strings
      GdeltItem(Some(Empty), Some(Empty), None, Some(U1), Some(Empty), None,
                Some(Empty), None),
      \* a title longer than the column
      GdeltItem(Some(LongTitle), Some(<<"e">>), None, Some(U1), None, None,
                Some(<<"t">>), None),
      \* another url
      GdeltItem(Some(Smog), None, None, Some(U2), Some(<<"x">>), None,
                Some(<<"t">>), None),
      \* no url
      GdeltItem(Some(Haze), Some(<<"e">>), None, None, Some(<<"x">>), None,
                Some(<<"t">>), None) }

InitNews ==
    /\ articles = << >> /\ news = NoNews /\ newsReport = None /\ arrival = None
    /\ IdleStore /\ IdleAqi /\ IdleOverall /\ IdleFetch /\ IdlePure /\ IdleCatalog
    /\ IdleRace
    /\ IdleReplay

\* handle, up to the loop
BeginFetchGdeltNews ==
    /\ ~news.active
    /\ news' = [NoNews EXCEPT !.active = TRUE]
    /\ arrival' = None
    /\ newsReport' = None
    /\ UNCHANGED <<articles, storeVars, aqiVars, overallVars, fetchVars, pureVars,
                   catalogVars, raceVars, replayVars>>

\* one pass of the loop's body
PassFetchGdeltNews ==
    /\ news.active
    /\ news.count < MaxBatch
    /\ \E item \in NewsItems :
          LET a   == JsonArticle(item)
              res == StoreArticle(articles, a)
          IN  /\ articles' = res.rows
              /\ news' = [news EXCEPT
                            !.count   = @ + 1,
                            !.saved   = IF res.verdict = "saved" THEN @ + 1 ELSE @,
                            !.updated = IF res.verdict = "updated" THEN @ + 1 ELSE @]
              /\ arrival' = Some([article |-> a, verdict |-> res.verdict,
                                  row |-> res.row, written |-> res.written])
    /\ UNCHANGED <<newsReport, storeVars, aqiVars, overallVars, fetchVars, pureVars,
                   catalogVars, raceVars, replayVars>>

\* handle, after the loop: the cache takes the latest hundred and the
\* summary is written
EndFetchGdeltNews ==
    /\ news.active
    /\ newsReport' = Some([saved |-> news.saved, updated |-> news.updated,
                           cached |-> Min2(Len(articles), 100)])
    /\ news' = NoNews
    /\ arrival' = None
    /\ UNCHANGED <<articles, storeVars, aqiVars, overallVars, fetchVars, pureVars,
                   catalogVars, raceVars, replayVars>>

NextNews ==
    \/ BeginFetchGdeltNews
    \/ PassFetchGdeltNews
    \/ EndFetchGdeltNews

SpecNews == InitNews /\ [][NextNews]_vars

(***************************************************************************)
(* The command run twice over one fetched batch: the first run draws the   *)
(* batch article by article, the second goes over the same articles in the *)
(* same order.                                                             *)
(***************************************************************************)
\* the table before the first run: empty, or one article of an earlier run
InitNewsTwice ==
    /\ articles \in { << >> }
                   \cup { <<ArticleDefaults(JsonArticle(item))>> :
                             item \in {i \in NewsItems : i.url # None} }
    /\ news = NoNews /\ newsReport = None /\ arrival = None
    /\ replay = [NoReplay EXCEPT !.run = "first"]
    /\ IdleStore /\ IdleAqi /\ IdleOverall /\ IdleFetch /\ IdlePure /\ IdleCatalog
    /\ IdleRace

\* one pass of the first run's loop
FirstRunPass ==
    /\ replay.run = "first"
    /\ Len(replay.batch) < MaxBatch
    /\ \E item \in NewsItems :
          LET a == JsonArticle(item)
          IN  /\ articles' = StoreArticle(articles, a).rows
              /\ replay' = [replay EXCEPT !.batch = Append(@, a)]
    /\ UNCHANGED <<news, newsReport, arrival>>
    /\ UNCHANGED <<storeVars, aqiVars, overallVars, fetchVars, pureVars, catalogVars, raceVars>>

\* the first run ends and the second starts, its counts at zero
SecondRunBegin ==
    /\ replay.run = "first"
    /\ replay' = [replay EXCEPT !.run = "second", !.after = articles]
    /\ UNCHANGED <<articles, news, newsReport, arrival>>
    /\ UNCHANGED <<storeVars, aqiVars, overallVars, fetchVars, pureVars, catalogVars, raceVars>>

\* one pass of the second run's loop
SecondRunPass ==
    /\ replay.run = "second"
    /\ replay.at < Len(replay.batch)
    /\ LET res == StoreArticle(articles, replay.batch[replay.at + 1])
       IN  /\ articles' = res.rows
           /\ replay' = [replay EXCEPT
                            !.at      = @ + 1,
                            !.saved   = IF res.verdict = "saved" THEN @ + 1 ELSE @,
                            !.updated = IF res.verdict = "updated" THEN @ + 1 ELSE @]
    /\ UNCHANGED <<news, newsReport, arrival>>
    /\ UNCHANGED <<storeVars, aqiVars, overallVars, fetchVars, pureVars, catalogVars, raceVars>>

\* the second run ends
SecondRunEnd ==
    /\ replay.run = "second"
    /\ replay.at = Len(replay.batch)
    /\ replay' = [replay EXCEPT !.run = "done"]
    /\ UNCHANGED <<articles, news, newsReport, arrival>>
    /\ UNCHANGED <<storeVars, aqiVars, overallVars, fetchVars, pureVars, catalogVars, raceVars>>

NextNewsTwice == FirstRunPass \/ SecondRunBegin \/ SecondRunPass \/ SecondRunEnd

SpecNewsTwice == InitNewsTwice /\ [][NextNewsTwice]_vars

(***************************************************************************)
(* The recommender (product_recommender.py).  get_recommendations reads    *)
(* the Product table and returns a list of its rows, given here by their   *)
(* places in the table.  order_by('-effectiveness', '-rating') leaves the  *)
(* order of rows that tie on both to the database, so a call has a set of  *)
(* lists it may return.                                                    *)
(***************************************************************************)
get_aqi_category(index) ==
    IF index <= 50 THEN "good"
    ELSE IF index <= 100 THEN "moderate"
    ELSE IF index <= 150 THEN "unhealthy_sensitive"
    ELSE IF index <= 200 THEN "unhealthy"
    ELSE IF index <= 300 THEN "very_unhealthy"
    ELSE "hazardous"

PRODUCT_PRIORITIES(aqi_category) ==
    CASE aqi_category = "good"     -> <<"plant", "monitor">>
      [] aqi_category = "moderate" -> <<"mask", "plant", "monitor">>
      [] aqi_category = "unhealthy_sensitive" ->
            <<"mask", "purifier", "room_purifier", "monitor">>
      [] aqi_category = "unhealthy" ->
            <<"mask", "purifier", "room_purifier", "monitor", "car-filter">>
      [] aqi_category = "very_unhealthy" ->
            <<"purifier", "room_purifier", "mask", "monitor", "car-filter">>
      [] aqi_category = "hazardous" ->
            <<"purifier", "room_purifier", "mask", "monitor", "car-filter", "plant">>
      [] OTHER -> << >>

\* needle in hay, for strings
Contains(hay, needle) ==
    \E k \in 0..(Len(hay) - Len(needle)) :
        SubSeq(hay, k + 1, k + Len(needle)) = needle

\* str() of a list of strings without quotes in them
RECURSIVE JoinReprs(_)
JoinReprs(list) ==
    IF list = << >> THEN << >>
    ELSE <<"'">> \o Head(list) \o <<"'">>
         \o (IF Len(list) > 1 THEN <<",", " ">> ELSE << >>)
         \o JoinReprs(Tail(list))

StrOfList(list) == <<"[">> \o JoinReprs(list) \o <<"]">>

\* any(cond.lower() in str(recommended_for).lower() for cond in conditions)
Boosted(row, conditions) ==
    \E k \in 1..Len(conditions) :
        Contains(Lower(StrOfList(row.recommended_for)), Lower(conditions[k]))

\* the members of a list that pass a test, in the list's order
RECURSIVE Keep(_, _)
Keep(list, S) ==
    IF list = << >> THEN << >>
    ELSE (IF Head(list) \in S THEN <<Head(list)>> ELSE << >>) \o Keep(Tail(list), S)

\* the list as it was
BoostNothing(rows, list, conditions) == list

\* boosted + normal, over the places of a list
_boost_for_conditions(rows, list, conditions) ==
    Keep(list, {i \in Range(list) : Boosted(rows[i], conditions)})
    \o Keep(list, {i \in Range(list) : ~Boosted(rows[i], conditions)})

\* the exact query: the range holds the index and, when a category is
\* passed, the type is that category
ExactQuery(rows, index, category) ==
    {i \in 1..Len(rows) :
        /\ rows[i].aqi_min <= index /\ index <= rows[i].aqi_max
        /\ (category # None /\ Val(category) # "") =>
              rows[i].product_type = Val(category)}

\* a broadening that adds nothing to the index
ExpandedQueryNoMargin(rows, index) ==
    {i \in 1..Len(rows) : rows[i].aqi_min <= index}

\* Product.objects.filter(aqi_min__lte=aqi + 50)
ExpandedQuery(rows, index) ==
    {i \in 1..Len(rows) : rows[i].aqi_min <= index + 50}

\* every row in one group
GroupFlat(row, priority_types) == 1

\* the group of a row in the ordered list: the place of its type in the
\* priority list, and one group after these for every other type
GroupOf(row, priority_types) ==
    IF \E k \in 1..Len(priority_types) : priority_types[k] = row.product_type
    THEN CHOOSE k \in 1..Len(priority_types) : priority_types[k] = row.product_type
    ELSE Len(priority_types) + 1

\* order_by('-effectiveness', '-rating'): a goes strictly before b
SortsBefore(a, b) ==
    \/ a.effectiveness > b.effectiveness
    \/ a.effectiveness = b.effectiveness /\ a.rating > b.rating

\* The lists ordered_products may be: the rows of each priority type in
\* turn and then the remaining rows, each part in order_by's order.
OrderedProducts(rows, pool, priority_types) ==
    {list \in [1..Cardinality(pool) -> pool] :
        /\ \A p, q \in DOMAIN list : p # q => list[p] # list[q]
        /\ \A p, q \in DOMAIN list :
              p < q =>
                 /\ GroupOf(rows[list[p]], priority_types)
                       <= GroupOf(rows[list[q]], priority_types)
                 /\ GroupOf(rows[list[p]], priority_types)
                       = GroupOf(rows[list[q]], priority_types)
                       => ~SortsBefore(rows[list[q]], rows[list[p]])}

\* the lists a call may return
get_recommendations(rows, index, category, max_results, user_conditions) ==
    LET exact == ExactQuery(rows, index, category)
        pool  == IF exact # {} THEN exact ELSE ExpandedQuery(rows, index)
        priority_types == PRODUCT_PRIORITIES(get_aqi_category(index))
    IN  { Take(IF user_conditions # None /\ Val(user_conditions) # << >>
               THEN _boost_for_conditions(rows, unique_products, Val(user_conditions))
               ELSE unique_products,
               max_results) :
            unique_products \in OrderedProducts(rows, pool, priority_types) }

get_category_recommendations(rows, index, product_type, max_results) ==
    get_recommendations(rows, index, Some(product_type), max_results, None)

\* a Product row of a catalog the recommender reads
CatalogRow(name, product_type, aqi_min, aqi_max, effectiveness, rating, recommended_for) ==
    [name            |-> name,
     product_type    |-> product_type,
     description     |-> Empty,
     price           |-> 10000,
     image_url       |-> Empty,
     product_url     |-> Empty,
     aqi_min         |-> aqi_min,
     aqi_max         |-> aqi_max,
     effectiveness   |-> effectiveness,
     rating          |-> rating,
     reviews         |-> 0,
     features        |-> << >>,
     recommended_for |-> recommended_for]

AsthmaPatients == <<"A","s","t","h","m","a"," ","p","a","t","i","e","n","t","s">>
Elderly        == <<"E","l","d","e","r","l","y">>
Cycling        == <<"C","y","c","l","i","n","g">>

\* the rows the catalogs are made of: two masks that tie on both sort keys,
\* two purifiers less effective than the masks, the more effective one with
\* the lower rating, a plant, and a mask for the highest indexes that
\* differs from the other masks in its rating only
CatalogRows ==
    << CatalogRow(<<"M","1">>, "mask", 50, 300, 95, 45, <<Cycling, AsthmaPatients>>),
       CatalogRow(<<"M","2">>, "mask", 50, 300, 95, 45, <<Elderly>>),
       CatalogRow(<<"P","1">>, "purifier", 100, 500, 90, 40, <<AsthmaPatients>>),
       CatalogRow(Fern, "plant", 0, 150, 60, 48, << >>),
       CatalogRow(<<"P","2">>, "purifier", 0, 500, 85, 50, <<Elderly>>),
       CatalogRow(<<"M","3">>, "mask", 380, 390, 95, 40, << >>) >>

\* the catalogs: the rows of CatalogRows at the places of S, in that order
RECURSIVE Pick(_, _)
Pick(list, S) ==
    IF list = << >> THEN << >>
    ELSE Pick(SubSeq(list, 1, Len(list) - 1), S)
         \o (IF Len(list) \in S THEN <<list[Len(list)]>> ELSE << >>)

MaxCatalog == 4      \* rows in a catalog

Catalogs ==
    {Pick(CatalogRows, S) :
        S \in {T \in SUBSET (1..Len(CatalogRows)) : Cardinality(T) <= MaxCatalog}}

\* the arguments the calls are tried with
Indexes    == {40, 120, 250, 400}
Categories == {None, Some(""), Some("mask"), Some("plant")}
Limits     == {0, 1, 2, 50}
Conditions == {None, Some(<< >>), Some(<< <<"a","s","t","h","m","a">> >>),
               Some(<< <<"x">>, <<"E","L","D","E","R","L","Y">> >>)}

InitRecommend ==
    /\ products \in Catalogs
    /\ ingest = NoIngest /\ ingestReport = None /\ candidate = None
    /\ \/ /\ fn = "get_recommendations"
          /\ args \in {<<i, c, m, u>> : i \in Indexes, c \in Categories,
                                          m \in Limits, u \in Conditions}
       \/ /\ fn = "get_category_recommendations"
          /\ args \in {<<i, Val(c), m>> : i \in Indexes, c \in Categories \ {None},
                                          m \in Limits}
    /\ called = FALSE /\ result = None /\ again = None
    /\ IdleStore /\ IdleAqi /\ IdleOverall /\ IdleFetch /\ IdleNews
    /\ IdleRace
    /\ IdleReplay

\* a call, and then the same call once more against the same table
CallGetRecommendations ==
    /\ fn = "get_recommendations" /\ again = None
    /\ \E list \in get_recommendations(products, args[1], args[2], args[3], args[4]) :
          IF ~called THEN result' = Some(list) /\ again' = again
          ELSE again' = Some(list) /\ result' = result
    /\ called' = TRUE
    /\ UNCHANGED <<fn, args, storeVars, aqiVars, overallVars, fetchVars, catalogVars,
                   newsVars, raceVars, replayVars>>

CallGetCategoryRecommendations ==
    /\ fn = "get_category_recommendations" /\ again = None
    /\ \E list \in get_category_recommendations(products, args[1], args[2], args[3]) :
          IF ~called THEN result' = Some(list) /\ again' = again
          ELSE again' = Some(list) /\ result' = result
    /\ called' = TRUE
    /\ UNCHANGED <<fn, args, storeVars, aqiVars, overallVars, fetchVars, catalogVars,
                   newsVars, raceVars, replayVars>>

NextRecommend ==
    \/ CallGetRecommendations
    \/ CallGetCategoryRecommendations

SpecRecommend == InitRecommend /\ [][NextRecommend]_vars

(***************************************************************************)
(* The harness of the AQI converter.  SpecAqi calls compute_aqi on a       *)
(* starting concentration (or on None) and then on each next concentration *)
(* of the grid in turn; SpecOverall calls compute_overall_aqi on a pair.   *)
(***************************************************************************)
Margin       == 60      \* how far below and above a table the sweep reaches
StartStride  == 5000    \* the sweep may start at every multiple of this
SampleStride == 2500    \* the pairs of SpecOverall are multiples of this

Table(p) == IF p = "pm25" THEN PM25_BREAKPOINTS ELSE PM10_BREAKPOINTS

FirstLow(breakpoints) == breakpoints[1][1]
LastHigh(breakpoints) == breakpoints[Len(breakpoints)][2]

\* The index of the first tuple with Clow <= C <= Chigh, 0 when there is none.
TupleOf(C, breakpoints) ==
    LET hits == {i \in 1..Len(breakpoints) :
                    breakpoints[i][1] <= C /\ C <= breakpoints[i][2]}
    IN  IF hits = {} THEN 0 ELSE CHOOSE i \in hits : \A j \in hits : i <= j

SweepRange(breakpoints) ==
    (FirstLow(breakpoints) - Margin)..(LastHigh(breakpoints) + Margin)

InitAqi ==
    /\ pollutant \in {"pm25", "pm10"}
    /\ conc \in {None} \cup
                {Some(c) : c \in {x \in SweepRange(Table(pollutant)) :
                                    \/ x % StartStride = 0
                                    \/ x = FirstLow(Table(pollutant)) - Margin}}
    /\ aqiCalled = FALSE
    /\ aqi = None /\ runMax = None /\ tupleFrom = None
    /\ IdleOverall /\ IdleStore /\ IdleFetch /\ IdlePure /\ IdleCatalog /\ IdleNews
    /\ IdleRace
    /\ IdleReplay

\* The first call, on the starting concentration.
CallComputeAqi ==
    /\ ~aqiCalled
    /\ aqiCalled' = TRUE
    /\ aqi' = compute_aqi(conc, Table(pollutant))
    /\ runMax' = aqi'
    /\ tupleFrom' = IF aqi' = None THEN None ELSE conc
    /\ UNCHANGED <<pollutant, conc, overallVars, storeVars, fetchVars, pureVars, catalogVars, newsVars, raceVars, replayVars>>

\* The next call, on the next concentration of the grid.
SweepComputeAqi ==
    /\ aqiCalled
    /\ conc # None
    /\ Val(conc) < LastHigh(Table(pollutant)) + Margin
    /\ LET next == Val(conc) + 1
           res  == compute_aqi(Some(next), Table(pollutant))
           same == TupleOf(next, Table(pollutant)) = TupleOf(Val(conc), Table(pollutant))
       IN  /\ conc' = Some(next)
           /\ aqi' = res
           /\ runMax' = IF res = None THEN None
                        ELSE IF same /\ runMax # None
                             THEN Some(Max2(Val(runMax), Val(res)))
                             ELSE res
           /\ tupleFrom' = IF res = None THEN None
                           ELSE IF same /\ tupleFrom # None THEN tupleFrom
                           ELSE Some(next)
    /\ UNCHANGED <<pollutant, aqiCalled, overallVars, storeVars, fetchVars, pureVars, catalogVars, newsVars, raceVars, replayVars>>

NextAqi == CallComputeAqi \/ SweepComputeAqi

SpecAqi == InitAqi /\ [][NextAqi]_vars

Samples(breakpoints) ==
    {None} \cup {Some(c) : c \in {x \in SweepRange(breakpoints) : x % SampleStride = 0}}

InitOverall ==
    /\ pm25 \in Samples(PM25_BREAKPOINTS)
    /\ pm10 \in Samples(PM10_BREAKPOINTS)
    /\ overallCalled = FALSE
    /\ overall = None
    /\ IdleAqi /\ IdleStore /\ IdleFetch /\ IdlePure /\ IdleCatalog /\ IdleNews
    /\ IdleRace
    /\ IdleReplay

CallComputeOverall ==
    /\ ~overallCalled
    /\ overallCalled' = TRUE
    /\ overall' = compute_overall_aqi(pm25, pm10)
    /\ UNCHANGED <<pm25, pm10, aqiVars, storeVars, fetchVars, pureVars, catalogVars, newsVars, raceVars, replayVars>>

NextOverall == CallComputeOverall

SpecOverall == InitOverall /\ [][NextOverall]_vars

(***************************************************************************)
(* SpecPure: one call of a pure function on arguments drawn from a set.    *)
(***************************************************************************)
Concat(parts) == parts[1] \o parts[2] \o parts[3] \o parts[4] \o parts[5]

Delhi123IN == <<"D","e","l","h","i","1","2","3",","," ","I","N">>
NewDelhiNcr ==
    <<" "," ","n","e","w"," ","d","e","l","h","i"," ","(","n","c","r",")"," "," ">>

\* Raw place names: a name, padded or not, with or without digits, a country
\* or a parenthetical after it; and values that are not strings.
RawNames ==
    { JStr(Concat(<<pre, base, dig, suf, post>>)) :
        pre  \in { << >>, <<" "," ">> },
        base \in { <<"D","e","l","h","i">>, <<"n","e","w"," ","d","e","l","h","i">>,
                   <<"p","U","N","E">>, <<"x">> },
        dig  \in { << >>, <<"1","2","3">> },
        suf  \in { << >>, <<","," ","I","N">>, <<" ","(","n","c","r",")">>,
                   <<" ",","," ","I","n","d","i","a">>, <<","," ","U","P">> },
        post \in { << >>, <<" "," ">> } }
    \cup { JNull, JInt(0), JInt(42), JStr(<< >>),
           JObj(Some(<<"P","u","n","e">>), None),
           JObj(None, Some(<<"a","g","r","a"," ","7">>)),
           JObj(Some(<< >>), Some(<<"a","g","r","a">>)),
           JObj(None, None) }

InitPure ==
    /\ fn = "clean_city_name" /\ args \in { <<raw>> : raw \in RawNames }
    /\ called = FALSE /\ result = None /\ again = None
    /\ IdleStore /\ IdleAqi /\ IdleOverall /\ IdleFetch /\ IdleCatalog /\ IdleNews
    /\ IdleRace
    /\ IdleReplay

CallCleanCityName ==
    /\ ~called /\ fn = "clean_city_name"
    /\ called' = TRUE
    /\ result' = clean_city_name(args[1])
    /\ UNCHANGED <<fn, args, again, storeVars, aqiVars, overallVars, fetchVars, catalogVars, newsVars, raceVars, replayVars>>

NextPure == CallCleanCityName

SpecPure == InitPure /\ [][NextPure]_vars

(***************************************************************************)
(* Claims about the telemetry ingestion commands.                          *)
(***************************************************************************)
Measured == {"aqi", "pm25", "pm10", "no2", "so2", "o3", "co", "nh3", "raw_data"}

SameKey(i, station, timestamp) ==
    readings[i].station = station /\ readings[i].timestamp = timestamp

\* C1: the store holds at most one Reading per (station, timestamp), and
\* after a pass of a store loop upserted a record, exactly one row has the
\* record's station and timestamp, that row holds the record's index, its
\* seven pollutant fields and its raw payload, and when the key existed
\* before the pass the table has as many rows as before.
C1_OneReadingPerStationTimestamp ==
    /\ \A i, j \in 1..Len(readings) :
          SameKey(i, readings[j].station, readings[j].timestamp) => i = j
    /\ upsert # None =>
          LET u    == Val(upsert)
              hits == {i \in 1..Len(readings) : SameKey(i, u.station, u.timestamp)}
          IN  /\ Cardinality(hits) = 1
              /\ \A i \in hits : \A f \in Measured : readings[i][f] = u.defaults[f]
              /\ u.flag = "updated" => Len(readings) = u.rowsBefore
              /\ u.flag = "created" => Len(readings) = u.rowsBefore + 1

\* C1's case: a pass upserted a record whose (station, timestamp) existed,
\* with another index, other pollutant values and another raw payload.
C1_Witness ==
    /\ upsert # None
    /\ Val(upsert).flag = "updated"
    /\ Val(Val(upsert).was).aqi # Val(upsert).defaults.aqi
    /\ Val(Val(upsert).was).pm25 # Val(upsert).defaults.pm25
    /\ Val(Val(upsert).was).raw_data # Val(upsert).defaults.raw_data

StationAttributes == {"code", "city", "name", "latitude", "longitude", "data_source"}

\* C2: no step changes the city, name, latitude, longitude or data_source
\* of a Station that exists, whatever record resolves to its code; Stations
\* are only added.
C2_StationAttributesFixed ==
    [][ /\ Len(stations') >= Len(stations)
        /\ \A i \in 1..Len(stations) :
              \A f \in StationAttributes : stations'[i][f] = stations[i][f] ]_vars

\* C2's case: a pass resolved its record to a Station that existed, and the
\* record would have given every one of the five attributes another value.
C2_Witness ==
    /\ upsert # None
    /\ ~Val(upsert).stationCreated
    /\ \A f \in StationAttributes \ {"code"} :
          stations[Val(upsert).station][f] # Val(upsert).attrs[f]

\* C3: no Reading in the store has an index below the sanity floor.
C3_NoReadingBelowFloor ==
    \A i \in 1..Len(readings) :
        readings[i].aqi # None => Val(readings[i].aqi) >= SanityFloor

\* The record a Reading came from had a latitude or a longitude.
HasPlace(raw) ==
    IF "coordinates" \in DOMAIN raw
    THEN /\ raw.coordinates # None
         /\ \/ Val(raw.coordinates).latitude # None
            \/ Val(raw.coordinates).longitude # None
    ELSE raw.lat # None \/ raw.lon # None

\* C4: every Reading in the store has an index, and the record it came from
\* had a latitude or a longitude.
C4_NoReadingWithoutIndexOrPlace ==
    \A i \in 1..Len(readings) :
        readings[i].aqi # None /\ HasPlace(readings[i].raw_data)

(***************************************************************************)
(* Claims about the adapters' fetch functions.                             *)
(***************************************************************************)
\* C5: whatever the upstream response, no call of an adapter's fetch
\* function raises an exception: it returns a sequence.
C5_FetchNeverRaises ==
    outcome.adapter # "none" => ~outcome.raised

\* C6: a call of an adapter's fetch function that met a non-success HTTP
\* status returns no record.
C6_NoRecordFromFailedStatus ==
    outcome.resp # << >> /\ outcome.resp.fault = "http_status" =>
        outcome.raised \/ outcome.records = << >>

(***************************************************************************)
(* Claims about the AQI converter.                                         *)
(***************************************************************************)
InNoTuple(C, breakpoints) ==
    \A i \in 1..Len(breakpoints) :
        ~(breakpoints[i][1] <= C /\ C <= breakpoints[i][2])

\* C7: compute_aqi returns None when the concentration is None, and returns
\* None when the concentration lies in no tuple [Clow, Chigh] of the table
\* (below the first, above the last, or between two tuples).
C7_AbsentOutsideTable ==
    aqiCalled =>
        /\ conc = None => aqi = None
        /\ (conc # None /\ InNoTuple(Val(conc), Table(pollutant))) => aqi = None

\* A call on a concentration strictly between two adjacent tuples.
C7_Witness ==
    /\ aqiCalled /\ conc # None /\ aqi = None
    /\ \E i \in 1..(Len(Table(pollutant)) - 1) :
          /\ Table(pollutant)[i][2] < Val(conc)
          /\ Val(conc) < Table(pollutant)[i + 1][1]

\* C8: the overall index is the maximum of whichever of the PM2.5 index and
\* the PM10 index are present, the single present one when only one is, and
\* None exactly when both are None.
C8_OverallIsMaxOfPresent ==
    overallCalled =>
        LET a == compute_aqi(pm25, PM25_BREAKPOINTS)
            b == compute_aqi(pm10, PM10_BREAKPOINTS)
        IN  /\ (a # None /\ b # None) =>
                  /\ overall # None
                  /\ Val(overall) >= Val(a) /\ Val(overall) >= Val(b)
                  /\ Val(overall) \in {Val(a), Val(b)}
            /\ (a # None /\ b = None) => overall = a
            /\ (a = None /\ b # None) => overall = b
            /\ (overall = None) <=> (a = None /\ b = None)

\* Both indexes are present and the PM10 index is the larger one.
C8_Witness ==
    /\ overallCalled
    /\ compute_aqi(pm25, PM25_BREAKPOINTS) # None
    /\ compute_aqi(pm10, PM10_BREAKPOINTS) # None
    /\ Val(compute_aqi(pm10, PM10_BREAKPOINTS)) > Val(compute_aqi(pm25, PM25_BREAKPOINTS))
    /\ overall = compute_aqi(pm10, PM10_BREAKPOINTS)

\* C9: inside one tuple the index is non-decreasing in the concentration (the
\* index of conc is the largest returned for any concentration of the tuple
\* from tupleFrom up to conc) and lies in [Ilow, Ihigh] of that tuple.
C9_MonotoneInsideTuple ==
    (aqiCalled /\ aqi # None) =>
        LET bp == Table(pollutant)[TupleOf(Val(conc), Table(pollutant))]
        IN  /\ runMax = aqi
            /\ bp[3] <= Val(aqi) /\ Val(aqi) <= bp[4]

\* A whole tuple has been swept, from its Clow to its Chigh.
C9_Witness ==
    /\ aqiCalled /\ aqi # None /\ tupleFrom # None
    /\ LET bp == Table(pollutant)[TupleOf(Val(conc), Table(pollutant))]
       IN  Val(tupleFrom) = bp[1] /\ Val(conc) = bp[2] /\ Val(aqi) > bp[3]

\* C10: for adjacent tuples i, i+1 of a table, the index of Chigh of tuple i
\* is the index of Clow of tuple i+1 minus 1.
C10_AdjacentTuplesDifferByOne ==
    \A i \in 1..(Len(Table(pollutant)) - 1) :
        (aqiCalled /\ conc = Some(Table(pollutant)[i + 1][1])) =>
            /\ aqi # None
            /\ compute_aqi(Some(Table(pollutant)[i][2]), Table(pollutant))
                  = Some(Val(aqi) - 1)

\* The sweep has crossed from tuple 1 into tuple 2 of the table.
C10_Witness ==
    /\ aqiCalled /\ aqi # None
    /\ conc = Some(Table(pollutant)[2][1])
    /\ tupleFrom = conc

\* The interpolation of C in the tuple bp, rounded to the nearest integer
\* with halves rounded up: floor(x + 1/2) of the exact value x.
HalfUp(C, bp) ==
    bp[3] + ((2 * (bp[4] - bp[3]) * (C - bp[1]) + (bp[2] - bp[1]))
                \div (2 * (bp[2] - bp[1])))

\* C11: for a concentration inside a tuple, the index returned is the linear
\* interpolation rounded to the nearest integer, an exact half rounded up.
C11_RoundsHalfUp ==
    (aqiCalled /\ aqi # None) =>
        Val(aqi) = HalfUp(Val(conc), Table(pollutant)[TupleOf(Val(conc), Table(pollutant))])

\* C12: for every concentration from the first tuple's Clow to the last
\* tuple's Chigh exactly one tuple of the table contains it, and compute_aqi
\* returns an index for it.
C12_TablePartitionsDomain ==
    (/\ aqiCalled /\ conc # None
     /\ FirstLow(Table(pollutant)) <= Val(conc)
     /\ Val(conc) <= LastHigh(Table(pollutant))) =>
        /\ Cardinality({i \in 1..Len(Table(pollutant)) :
                            /\ Table(pollutant)[i][1] <= Val(conc)
                            /\ Val(conc) <= Table(pollutant)[i][2]}) = 1
        /\ aqi # None

(***************************************************************************)
(* Claims about place-name cleanup.                                        *)
(***************************************************************************)
\* C13: clean_city_name maps "Delhi123, IN" to "Delhi" and
\* "  new delhi (ncr)  " to "New Delhi", and a name it returns has no digit,
\* no parenthesis and no surrounding whitespace and is title-cased.
C13_CleanCityNameExamples ==
    (called /\ fn = "clean_city_name") =>
        /\ args[1] = JStr(Delhi123IN) => result = Some(<<"D","e","l","h","i">>)
        /\ args[1] = JStr(NewDelhiNcr) =>
              result = Some(<<"N","e","w"," ","D","e","l","h","i">>)
        /\ result # None =>
              /\ ~HasDigit(Val(result))
              /\ \A k \in 1..Len(Val(result)) : Val(result)[k] \notin {"(", ")"}
              /\ Strip(Val(result)) = Val(result)
              /\ Title(Val(result)) = Val(result)

(***************************************************************************)
(* The product catalog under fetch_products.                               *)
(***************************************************************************)
\* a step that is one pass of the loop's body; candidate' describes it
CandidatePass == ingest.active /\ ingest'.active /\ ingest'.count = ingest.count + 1

\* row i became what the command computes from the candidate and its
\* category, and no other row changed nor was one added
Replaced(i, c) ==
    /\ Len(products') = Len(products)
    /\ \A j \in 1..Len(products) : j # i => products'[j] = products[j]
    /\ products'[i].name = c.item.name
    /\ products'[i].product_type = c.product_type
    /\ products'[i].description = c.item.description
    /\ products'[i].price = c.item.price
    /\ products'[i].image_url = c.item.image_url
    /\ products'[i].product_url = c.item.product_url
    /\ <<products'[i].aqi_min, products'[i].aqi_max>> = aqi_ranges(c.product_type)
    /\ products'[i].effectiveness =
          _calculate_effectiveness(c.item, effectiveness_by_type(c.product_type))
    /\ products'[i].rating = c.item.rating
    /\ products'[i].reviews = c.item.reviews
    /\ products'[i].features = _extract_features(c.item)
    /\ products'[i].recommended_for =
          _get_recommended_for(c.product_type, aqi_ranges(c.product_type)[1],
                               aqi_ranges(c.product_type)[2])

\* C14 as stated: without refresh a candidate whose name matches a Product
\* whatever the case is skipped and the catalog is left as it was; with
\* refresh the matched Product has every catalog field replaced by the
\* candidate's values and no Product is created.
C14_MatchSkipsOrReplaces ==
    [][CandidatePass =>
         LET c == Val(candidate')
             hits == NameHits(products, c.item.name)
         IN  hits # {} =>
                IF c.refresh
                THEN \E i \in hits : Replaced(i, c)
                ELSE c.verdict = "skipped" /\ products' = products]_vars

\* C14 amended: the same, where with refresh the replacement is of a
\* candidate that has a name and a price other than zero.
C14_MatchSkipsOrReplacesUsable ==
    [][CandidatePass =>
         LET c == Val(candidate')
             hits == NameHits(products, c.item.name)
         IN  hits # {} =>
                IF c.refresh
                THEN Unusable(c.item) \/ \E i \in hits : Replaced(i, c)
                ELSE c.verdict = "skipped" /\ products' = products]_vars

\* a run with refresh has replaced a Product that was there before the run
\* by a candidate whose name differs from it in case
C14_Witness ==
    /\ candidate # None /\ Val(candidate).verdict = "updated"
    /\ Val(candidate).refresh /\ ingest.created = 0
    /\ Val(candidate).item.name = <<"n","9","5">>
    /\ Len(products) = 1 /\ products[1].name = <<"n","9","5">>
    /\ products[1].price = 49900

\* C15: a candidate with an empty name or a price of zero (a missing title
\* or price comes out of the parser as that) writes nothing to the catalog,
\* with or without refresh, and adds exactly one to the skipped count and
\* nothing to the others.
C15_NamelessOrPricelessSkipped ==
    [][CandidatePass =>
         LET c == Val(candidate')
         IN  (c.item.name = Empty \/ c.item.price = 0) =>
                /\ products' = products
                /\ ingest'.skipped = ingest.skipped + 1
                /\ ingest'.created = ingest.created
                /\ ingest'.updated = ingest.updated]_vars

\* a run with refresh has skipped a candidate without a price whose name
\* is in the catalog
C15_Witness ==
    /\ candidate # None /\ Val(candidate).refresh
    /\ Val(candidate).item.price = 0
    /\ NameHits(products, Val(candidate).item.name) # {}
    /\ Val(candidate).verdict = "skipped"
    /\ ingest.skipped = 1 /\ ingest.count = 1

\* the row the latest pass wrote: the one it matched, or the one it added
Written(c) == IF c.verdict = "updated" THEN c.existing ELSE Len(products)

\* C16: the effectiveness stored by a pass that created or updated a Product
\* is the smaller of 100 and the category's default plus 5 for a rating of
\* 4.5 or more (else 3 for 4.0 or more) plus 5 for 5000 reviews or more
\* (else 3 for 1000 or more); it lies in 0..100.
C16_StoredEffectiveness ==
    (candidate # None /\ Val(candidate).verdict \in {"created", "updated"}) =>
        LET c == Val(candidate)
            rating_bonus == IF c.item.rating >= 45 THEN 5
                            ELSE IF c.item.rating >= 40 THEN 3 ELSE 0
            review_bonus == IF c.item.reviews >= 5000 THEN 5
                            ELSE IF c.item.reviews >= 1000 THEN 3 ELSE 0
            total == effectiveness_by_type(c.product_type) + rating_bonus + review_bonus
        IN  /\ products[Written(c)].effectiveness = IF total <= 100 THEN total ELSE 100
            /\ products[Written(c)].effectiveness \in 0..100

\* a purifier rated 4.8 by 12000 reviewers was stored at the cap
C16_Witness ==
    /\ candidate # None /\ Val(candidate).verdict = "created"
    /\ Val(candidate).product_type = "purifier"
    /\ Val(candidate).item.rating = 48 /\ Val(candidate).item.reviews = 12000
    /\ products[Len(products)].name = Fern
    /\ products[Len(products)].effectiveness = 100

\* C17: runs of fetch_products one after the other, with or without
\* refresh, on a catalog that had no two names equal but for case, never
\* leave two Products whose names are equal but for case.
C17_NoTwoNamesEqualIgnoringCase ==
    \A i, j \in 1..Len(products) :
        i # j => Lower(products[i].name) # Lower(products[j].name)

\* in a later run a candidate met a Product of its name in another case,
\* in a catalog of two
C17_Witness ==
    /\ candidate # None /\ ingest.created = 0 /\ Len(products) = 2
    /\ Val(candidate).item.name = <<"n","9","5">>
    /\ Val(candidate).existing # 0
    /\ products[Val(candidate).existing].name = N95

(***************************************************************************)
(* The news articles under fetch_gdelt_news.                               *)
(***************************************************************************)
\* a step that is one pass of the loop's body; arrival' describes it
ArticlePass == news.active /\ news'.active /\ news'.count = news.count + 1

TextFields == {"title", "summary", "source"}

\* C18: no step replaces a title, summary or source that is not empty by an
\* empty one, and a pass for an article whose title, summary or source is
\* empty leaves that field of every Article as it was.
C18_BlankNeverReplacesText ==
    [][\A i \in 1..Len(articles) :
          /\ i <= Len(articles')
          /\ \A f \in TextFields :
                /\ articles[i][f] # Empty => articles'[i][f] # Empty
                /\ (ArticlePass /\ Val(arrival').article[f] = Empty) =>
                       articles'[i][f] = articles[i][f]]_vars

\* an article with nothing but its url arrived for an Article that has a
\* title, a summary and a source, and these are still there
C18_Witness ==
    /\ arrival # None /\ Val(arrival).row # 0 /\ Val(arrival).verdict = "same"
    /\ \A f \in TextFields : Val(arrival).article[f] = Empty
    /\ articles[Val(arrival).row].title = Smog
    /\ articles[Val(arrival).row].summary = <<"e">>
    /\ articles[Val(arrival).row].source = <<"x">>

\* the value of a field as the command takes it from the article
Incoming(a, f) ==
    CASE f = "title"  -> Take(a.title, ArticleTitleMaxLen)
      [] f = "source" -> Take(a.source, ArticleSourceMaxLen)
      [] OTHER        -> a[f]

\* C19: no two Articles have the same url; and in a pass for an article
\* whose url is that of an Article, the fields written are exactly those of
\* title, summary and source whose incoming value is not empty and differs
\* from the stored one, they take the incoming value, every other field of
\* the Article (published_at among them), every other Article and the
\* number of Articles stay, and the updated count changes only if a field
\* was written.
C19_OneArticlePerUrlAndMinimalWrite ==
    [][/\ \A i, j \in 1..Len(articles') :
             i # j => articles'[i].url # articles'[j].url
       /\ ArticlePass =>
             LET a == Val(arrival').article
                 written == Val(arrival').written
             IN  \A i \in 1..Len(articles) :
                    (a.url # Empty /\ articles[i].url = a.url) =>
                       /\ written = {f \in TextFields :
                                       /\ a[f] # Empty
                                       /\ Incoming(a, f) # articles[i][f]}
                       /\ Len(articles') = Len(articles)
                       /\ \A j \in 1..Len(articles) :
                             j # i => articles'[j] = articles[j]
                       /\ \A f \in DOMAIN articles[i] :
                             articles'[i][f] = IF f \in written THEN Incoming(a, f)
                                               ELSE articles[i][f]
                       /\ news'.updated # news.updated => written # {}
                       /\ news'.saved = news.saved]_vars

\* an article without a date, with another summary and source, arrived for
\* an Article: these two were written and the date stayed
C19_Witness ==
    /\ arrival # None /\ Val(arrival).verdict = "updated"
    /\ Val(arrival).written = {"summary", "source"}
    /\ Val(arrival).article.published_at = None
    /\ Len(articles) = 1
    /\ articles[1].summary = <<"f">> /\ articles[1].source = <<"y">>
    /\ articles[1].published_at = <<"t">>
    /\ news.updated = 1 /\ news.saved = 0

(***************************************************************************)
(* The recommender.                                                        *)
(***************************************************************************)
\* a call that was given a category
CategoryPassed ==
    \/ fn = "get_category_recommendations" /\ args[2] # ""
    \/ fn = "get_recommendations" /\ args[2] # None /\ args[2] # Some("")

CategoryOf == IF fn = "get_category_recommendations" THEN args[2] ELSE Val(args[2])

\* C20: when a category is passed, every product of the returned list has
\* that category as its product_type, also when no product of the category
\* has a range that holds the index and the query is broadened.
C20_FilterKeptUnderFallback ==
    (called /\ CategoryPassed) =>
        \A k \in 1..Len(Val(result)) :
            products[Val(result)[k]].product_type = CategoryOf

\* the index and the limit of the call, and the products it returned
IndexOf  == args[1]
LimitOf  == args[3]
ReturnedList == Val(result)

HoldsIndex(i) == products[i].aqi_min <= IndexOf /\ IndexOf <= products[i].aqi_max

\* the products whose range holds the index, of the category when one was passed
ExactSet ==
    {i \in 1..Len(products) :
        HoldsIndex(i) /\ (CategoryPassed => products[i].product_type = CategoryOf)}

\* the products whose aqi_min is at most the index plus 50
BroadSet == {i \in 1..Len(products) : products[i].aqi_min <= IndexOf + 50}

\* C21: when some product (of the category, when one was passed) has a range
\* that holds the index, every returned product's range holds the index;
\* when none has, the returned products are among those with aqi_min at
\* most the index plus 50, and there is one whenever such a product exists
\* and the limit is 1 or more.
C21_BroadensOnlyWhenEmpty ==
    called =>
        IF ExactSet # {}
        THEN \A k \in 1..Len(ReturnedList) : HoldsIndex(ReturnedList[k])
        ELSE /\ \A k \in 1..Len(ReturnedList) : ReturnedList[k] \in BroadSet
             /\ (BroadSet # {} /\ LimitOf >= 1) => Len(ReturnedList) >= 1

\* at index 400 no range holds the index and a product with aqi_min 380 is
\* returned
C21_Witness ==
    /\ called /\ IndexOf = 400 /\ ExactSet = {}
    /\ \E k \in 1..Len(ReturnedList) : products[ReturnedList[k]].aqi_min = 380

\* a call without audience conditions
NoConditions ==
    \/ fn = "get_category_recommendations"
    \/ fn = "get_recommendations" /\ args[4] \in {None, Some(<< >>)}

\* the priority list of the index's band, and a type's place in it
PriorityOfBand == PRODUCT_PRIORITIES(get_aqi_category(IndexOf))
Listed(t)  == \E k \in 1..Len(PriorityOfBand) : PriorityOfBand[k] = t
PlaceOf(t) == CHOOSE k \in 1..Len(PriorityOfBand) : PriorityOfBand[k] = t

\* C22: without audience conditions the returned list is ordered by the
\* place of the product's type in the priority list of the index's band,
\* the types the list lacks after all it names, and inside one named type
\* by effectiveness descending and then rating descending.
C22_OrderedByBandPriority ==
    (called /\ NoConditions) =>
        \A p, q \in 1..Len(ReturnedList) :
            p < q =>
               LET a == products[ReturnedList[p]]
                   b == products[ReturnedList[q]]
               IN  /\ Listed(b.product_type) =>
                          /\ Listed(a.product_type)
                          /\ PlaceOf(a.product_type) <= PlaceOf(b.product_type)
                   /\ (a.product_type = b.product_type /\ Listed(a.product_type)) =>
                          \/ a.effectiveness > b.effectiveness
                          \/ /\ a.effectiveness = b.effectiveness
                             /\ a.rating >= b.rating

\* at index 250 a purifier of effectiveness 90 comes before a mask of
\* effectiveness 95
C22_Witness ==
    /\ called /\ NoConditions /\ IndexOf = 250
    /\ \E p, q \in 1..Len(ReturnedList) :
          /\ p < q
          /\ products[ReturnedList[p]].product_type = "purifier"
          /\ products[ReturnedList[p]].effectiveness = 90
          /\ products[ReturnedList[q]].product_type = "mask"
          /\ products[ReturnedList[q]].effectiveness = 95

\* a call with audience conditions
WithConditions ==
    fn = "get_recommendations" /\ args[4] \notin {None, Some(<< >>)}

\* the product's audience tags, as text, hold some condition, whatever the case
Tagged(i) ==
    \E k \in 1..Len(Val(args[4])) :
        Contains(Lower(StrOfList(products[i].recommended_for)),
                 Lower(Val(args[4])[k]))

\* the priority order puts product i strictly before product j
StrictlyBefore(i, j) ==
    \/ GroupOf(products[i], PriorityOfBand) < GroupOf(products[j], PriorityOfBand)
    \/ /\ GroupOf(products[i], PriorityOfBand) = GroupOf(products[j], PriorityOfBand)
       /\ SortsBefore(products[i], products[j])

CandidateSet == IF ExactSet # {} THEN ExactSet ELSE BroadSet

\* C23: with audience conditions the returned list is the first `limit`
\* products of a stable partition of the priority-ordered candidates: a
\* product whose tags hold a condition comes before every product whose
\* tags hold none, inside each of the two groups the priority order is
\* kept, and no product left out belongs before one that is returned.
C23_StablePartitionThenLimit ==
    (called /\ WithConditions) =>
        /\ \A p, q \in 1..Len(ReturnedList) :
              p < q =>
                 /\ ReturnedList[p] # ReturnedList[q]
                 /\ Tagged(ReturnedList[q]) => Tagged(ReturnedList[p])
                 /\ Tagged(ReturnedList[p]) = Tagged(ReturnedList[q]) =>
                        ~StrictlyBefore(ReturnedList[q], ReturnedList[p])
        /\ Range(ReturnedList) \subseteq CandidateSet
        /\ Len(ReturnedList) = Min2(LimitOf, Cardinality(CandidateSet))
        /\ \A x \in CandidateSet \ Range(ReturnedList), y \in Range(ReturnedList) :
              /\ Tagged(x) => Tagged(y)
              /\ Tagged(x) = Tagged(y) => ~StrictlyBefore(x, y)

\* a product whose tags hold a condition was returned before one that the
\* priority order puts strictly before it
C23_Witness ==
    /\ called /\ WithConditions
    /\ \E p, q \in 1..Len(ReturnedList) :
          /\ p < q
          /\ Tagged(ReturnedList[p]) /\ ~Tagged(ReturnedList[q])
          /\ StrictlyBefore(ReturnedList[q], ReturnedList[p])

\* C24: the same call made twice against the same table returns the same
\* list, also when candidates of one type tie on effectiveness and rating.
C24_SameCallSameList ==
    again # None => again = result

(***************************************************************************)
(* C25.  Two runs at once.                                                  *)
(***************************************************************************)
NoTwoStationsOfOneCode ==
    \A i, j \in 1..Len(stations) : stations[i].code = stations[j].code => i = j

NoTwoReadingsOfOneKey ==
    \A i, j \in 1..Len(readings) :
        (/\ readings[i].station = readings[j].station
         /\ readings[i].timestamp = readings[j].timestamp) => i = j

\* C25: two telemetry runs over records of the same natural keys, interleaved
\* between the calls of the store, never leave two Stations of one code or
\* two Readings of one (station, timestamp), and neither run ends with an
\* error of the store raised out of it.
C25_RunsAtOnceAreSafe ==
    /\ NoTwoStationsOfOneCode
    /\ NoTwoReadingsOfOneKey
    /\ \A w \in Workers : workers[w].pc # "crashed"

\* what the unique constraints do give
C25_KeysStayUnique == NoTwoStationsOfOneCode /\ NoTwoReadingsOfOneKey

(***************************************************************************)
(* C29.  The reading's own city reference.                                  *)
(***************************************************************************)
\* C29: after any sequence of telemetry runs, every Reading's city is the city
\* of the Station it belongs to, also when two records of different city names
\* resolve to one station code.
C29_ReadingCityIsStationCity ==
    \A i \in 1..Len(readings) :
        readings[i].city = stations[readings[i].station].city

(***************************************************************************)
(* C26.  The counts a run reports.                                          *)
(***************************************************************************)
\* the counts a telemetry run reports: created and updated, and no other
ReportedCounts == report.created + report.updated

\* C26: every upstream candidate of a run is in exactly one reported count
\* (skipped when it fails validation, else created or updated), so the
\* reported counts add up to the number of candidates the run received.
C26_EveryCandidateCounted ==
    [][(EndFetchAqi \/ EndFetchIndiaAqi) => ReportedCounts' = run.count]_vars

\* the same of the product command, whose summary has a skipped count
C26_ProductCandidatesCounted ==
    [][EndFetchProducts =>
          LET rep == Val(ingestReport')
          IN  rep.created + rep.updated + rep.skipped = ingest.count]_vars

(***************************************************************************)
(* C27.  The parse path of fetch_gdelt_articles.                            *)
(***************************************************************************)
GdeltCalled == outcome.adapter = "fetch_gdelt_articles" /\ outcome.resp.fault = "none"

JsonPathTaken ==
    /\ ~outcome.raised
    /\ outcome.records =
          [k \in 1..Len(outcome.resp.items) |-> JsonArticle(outcome.resp.items[k])]

CsvPathTaken ==
    /\ ~outcome.raised
    /\ outcome.records =
          [k \in 1..Len(outcome.resp.items) |-> CsvArticle(outcome.resp.items[k])]

AllObjects == \A k \in 1..Len(outcome.resp.items) : outcome.resp.items[k].shape = "dict"

\* C27: the parse path follows from the response alone: a JSON content type
\* takes the JSON path; else a CSV content type or a body that begins with
\* `url,` takes the CSV path; a JSON body under an absent or generic content
\* type is still recognised by its body and takes the JSON path; any other
\* response gives the empty list, and nothing is raised.
C27_ParsePathFromResponse ==
    GdeltCalled =>
        LET type == outcome.resp.contentType
            body == outcome.resp.body
        IN  /\ (type = "json" /\ body = "json" /\ AllObjects) => JsonPathTaken
            /\ (type # "json" /\ (type = "csv" \/ body = "csv_url")) => CsvPathTaken
            /\ (type = "other" /\ body = "json" /\ AllObjects) => JsonPathTaken
            /\ (type = "other" /\ body = "other") =>
                   (~outcome.raised /\ outcome.records = << >>)

\* what the code does do: the same without the recognition of a JSON body,
\* which gets the empty list like any other body
C27_ParsePathFromContentType ==
    GdeltCalled =>
        LET type == outcome.resp.contentType
            body == outcome.resp.body
        IN  /\ (type = "json" /\ body = "json" /\ AllObjects) => JsonPathTaken
            /\ (type # "json" /\ (type = "csv" \/ body = "csv_url")) => CsvPathTaken
            /\ (type = "other" /\ body # "csv_url") =>
                   (~outcome.raised /\ outcome.records = << >>)

(***************************************************************************)
(* C28.  One query of a catalog fetch fails.                                *)
(***************************************************************************)
\* a query that succeeded with zero results
ZeroResults == [fault |-> "none", items |-> << >>]

\* the query failed: an error payload, an exception, or no results
Failed(resp) == resp.fault # "none" \/ resp.items = << >>

AllCalled == outcome.adapter = "fetch_all_categories"
OneCalled == outcome.adapter = "fetch_category"

\* C28: in a catalog fetch over several categories and queries, a query that
\* fails (error payload, exception, no results) contributes an empty list for
\* itself only: what the fetch returns is what it returns when that query
\* succeeds with zero results, the products of every other query and
\* category included.
C28_FailedQueryIsEmptyAlone ==
    /\ AllCalled =>
          \A c \in DOMAIN outcome.resp : \A q \in 1..Len(outcome.resp[c]) :
              Failed(outcome.resp[c][q]) =>
                 /\ ~outcome.raised
                 /\ outcome.records =
                       fetch_all_categories([outcome.resp EXCEPT ![c][q] = ZeroResults])
    /\ OneCalled =>
          \A q \in 1..Len(outcome.resp[1]) :
              Failed(outcome.resp[1][q]) =>
                 /\ ~outcome.raised
                 /\ outcome.records =
                       fetch_category([outcome.resp[1] EXCEPT ![q] = ZeroResults],
                                      outcome.resp[2])

\* a query of a category returned an error payload and another query of the
\* same category returned a product, which the fetch hands on
C28_Witness ==
    /\ AllCalled
    /\ \E c \in DOMAIN outcome.resp : \E q, r \in 1..Len(outcome.resp[c]) :
          /\ outcome.resp[c][q].fault = "error"
          /\ outcome.resp[c][r].items # << >>
          /\ outcome.records[c] # << >>

(***************************************************************************)
(* C30.  The news command run again on the same batch.                      *)
(***************************************************************************)
\* C30: a second run of fetch_gdelt_news on the same fetched batch leaves
\* every article (title, summary, source, published_at) and the set of
\* urls as they were after the first run, and creates no article.
C30_SecondRunChangesNothing ==
    replay.run = "done" =>
        /\ articles = replay.after
        /\ replay.saved = 0

\* the second run is over and it wrote to an article it found: the batch has
\* one url twice with different texts
C30_Witness ==
    /\ replay.run = "done"
    /\ Len(replay.batch) >= 2
    /\ replay.updated > 0

====
